---- MODULE Spec2Model ----
(***************************************************************************)
(* A model of the hybrid retrieval core of TGB-MicroSuite (services/a-rag): *)
(*   - reciprocal_rank_fusion        (storage/vec_db/qdrant.py)             *)
(*   - BM25Index / QdrantRepository  (storage/vec_db/qdrant.py)             *)
(*   - MemoryService                 (memory/service.py)                    *)
(*                                                                         *)
(* Scores are Python floats in the source.  Fused scores are modelled as    *)
(* exact rationals: an integer number of units of 1/Scale(k), where         *)
(* Scale(k) is a common multiple of every denominator k + rank + 1 that can *)
(* occur, so that 1/(k + rank + 1) is the integer Scale(k) \div (k+rank+1). *)
(* An Optional[float] field is the empty set (None) or a singleton {v}.     *)
(***************************************************************************)
EXTENDS Integers, Sequences, FiniteSets, TLC

VARIABLES
    \* ---- reciprocal_rank_fusion, as a pure function under test ----
    results,        \* the argument `results`: a sequence of ranked lists
    k,              \* the argument `k`
    fused,          \* the returned list of the call on `results`
    fusedSwapped,   \* the returned list of the call with the two secondary lists exchanged
    fpc,            \* "ready" | "fused" | "both"
    \* ---- QdrantRepository and its vector backend ----
    collection_exists,  \* the backend has the collection
    points,             \* the backend's points: chunk id -> payload
    bm25_index,         \* self.bm25_index
    repoCall,           \* the last repository call that returned or raised
    \* ---- MemoryService, its key-value store and its long-term index ----
    llm_adapter,        \* self.llm_adapter is set (summarization enabled)
    chat_history_index, \* self.chat_history_index is set (long-term memory enabled)
    redis,              \* the key-value store: key -> list of JSON strings
    ltm,                \* the nodes held by the long-term index
    memCall,            \* the last memory call that returned
    \* ---- the pipeline steps of rag_steps.py, each a call on a RAGQuery ----
    rag_query,          \* the RAGQuery object handed from step to step
    num_queries,        \* QueryExpansionStep.num_queries
    response,           \* what the generation call of the expansion is going to answer
    stepCall,           \* the last call of a step that returned or raised
    \* ---- generate_chat_response, one process per request ----
    kb_rag_engine,      \* a knowledge-base query engine is configured
    chat,               \* request -> its position and its local variables
    \* ---- create_access_token, as a pure function under test ----
    tokenCall,          \* the last call that returned: its arguments and its result
    \* ---- concurrent calls, one task per call, suspended at its awaits ----
    repoTasks,          \* task -> the repository call it runs and its local variables
    memTasks,           \* task -> the add_message_to_history call it runs and its locals
    evicted,            \* history variable: the messages lpop has returned, in order
    \* ---- _split_long_message, as a pure function under test ----
    splitCall           \* the arguments of the call and the chunks it returned

fusionVars == <<results, k, fused, fusedSwapped, fpc>>

repoVars == <<collection_exists, points, bm25_index, repoCall>>

memVars == <<llm_adapter, chat_history_index, redis, ltm, memCall>>

stepVars == <<rag_query, num_queries, response, stepCall>>

chatVars == <<kb_rag_engine, chat>>

tokenVars == <<tokenCall>>

taskVars == <<repoTasks, memTasks, evicted>>

splitVars == <<splitCall>>

vars == <<results, k, fused, fusedSwapped, fpc,
          collection_exists, points, bm25_index, repoCall,
          llm_adapter, chat_history_index, redis, ltm, memCall,
          rag_query, num_queries, response, stepCall,
          kb_rag_engine, chat,
          tokenCall, repoTasks, memTasks, evicted, splitCall>>

(***************************************************************************)
(* Bounds of the model and constants of the program.                        *)
(***************************************************************************)
MaxLen == 2             \* longest ranked list handed to the fusion

MaxTopK == 2            \* largest top_k asked of search

DEFAULT_K == 60

SCROLL_LIMIT == 10000

MAX_HISTORY_TOKENS == 2048

SUMMARY_THRESHOLD == 8

MESSAGES_TO_SUMMARIZE == 4

\* The chunk ids, in the order the backend lists them.
IdOrder == <<"c0", "c1", "c2">>

ChunkIds == {IdOrder[i] : i \in DOMAIN IdOrder}

Words == {"space", "cats"}

None == {}

Some(v) == {v}

(***************************************************************************)
(* LoadedDocument, reduced to the fields the fusion reads or writes:        *)
(* id, content, score, metadata.bm25_score, metadata.rrf_score.             *)
(***************************************************************************)
LoadedDocument(id, content, score, bm25) ==
    [id |-> id, content |-> content, score |-> score,
     bm25_score |-> bm25, rrf_score |-> None]

RECURSIVE Product(_, _)
Product(lo, hi) == IF lo > hi THEN 1 ELSE lo * Product(lo + 1, hi)

\* The unit of the fused scores: 1/Scale(kk).
Scale(kk) == Product(kk + 1, kk + Len(IdOrder))

(***************************************************************************)
(* reciprocal_rank_fusion, statement by statement.  The two dicts are kept  *)
(* with their insertion order: `keys` is the order of fused_scores.keys().  *)
(***************************************************************************)
EmptyAcc == [keys |-> <<>>, fused_scores |-> <<>>, doc_map |-> <<>>]

\* for doc in vector_results: doc_map[str(doc.id)] = doc
RECURSIVE SeedDocMap(_, _, _)
SeedDocMap(doc_map, vector_results, i) ==
    IF i > Len(vector_results) THEN doc_map
    ELSE LET doc == vector_results[i]
             rest == [d \in DOMAIN doc_map \ {doc.id} |-> doc_map[d]]
         IN SeedDocMap(rest @@ (doc.id :> doc), vector_results, i + 1)

\* A fusion that lets a later list's document replace the canonical one.
RegisterOverwriting(acc, doc) ==
    LET rest == [d \in DOMAIN acc.doc_map \ {doc.id} |-> acc.doc_map[d]]
    IN IF doc.id \notin DOMAIN acc.fused_scores
       THEN [acc EXCEPT !.keys = Append(@, doc.id),
                        !.fused_scores = @ @@ (doc.id :> 0),
                        !.doc_map = rest @@ (doc.id :> doc)]
       ELSE [acc EXCEPT !.doc_map = rest @@ (doc.id :> doc)]

\* if doc_id not in fused_scores: fused_scores[doc_id] = 0.0
\*     if doc_id not in doc_map: doc_map[doc_id] = doc
Register(acc, doc) ==
    IF doc.id \notin DOMAIN acc.fused_scores
    THEN [acc EXCEPT !.keys = Append(@, doc.id),
                     !.fused_scores = @ @@ (doc.id :> 0),
                     !.doc_map = IF doc.id \in DOMAIN @ THEN @ ELSE @ @@ (doc.id :> doc)]
    ELSE acc

\* if doc.metadata.bm25_score is not None:
\*     doc_map[doc_id].metadata.bm25_score = doc.metadata.bm25_score
Enrich(acc, doc) ==
    IF doc.bm25_score # None
    THEN [acc EXCEPT !.doc_map[doc.id].bm25_score = doc.bm25_score]
    ELSE acc

\* A rank that counts from one instead of zero.
ContributionOneBased(kk, rank) == Scale(kk) \div (kk + rank + 2)

\* 1.0 / (k + rank + 1), rank 0-based
Contribution(kk, rank) == Scale(kk) \div (kk + rank + 1)

\* A fusion that keeps only the last list's contribution.
AccumulateAssigning(acc, doc, rank, kk) ==
    [acc EXCEPT !.fused_scores[doc.id] = Contribution(kk, rank)]

\* fused_scores[doc_id] += 1.0 / (k + rank + 1)
Accumulate(acc, doc, rank, kk) ==
    [acc EXCEPT !.fused_scores[doc.id] = @ + Contribution(kk, rank)]

\* for rank, doc in enumerate(result_list): ...   (i = rank + 1)
RECURSIVE ScoreList(_, _, _, _)
ScoreList(acc, result_list, i, kk) ==
    IF i > Len(result_list) THEN acc
    ELSE LET doc == result_list[i]
         IN ScoreList(Accumulate(Enrich(Register(acc, doc), doc), doc, i - 1, kk),
                      result_list, i + 1, kk)

\* for result_list in all_result_lists: ...
RECURSIVE ScoreLists(_, _, _, _)
ScoreLists(acc, all_result_lists, l, kk) ==
    IF l > Len(all_result_lists) THEN acc
    ELSE ScoreLists(ScoreList(acc, all_result_lists[l], 1, kk), all_result_lists, l + 1, kk)

\* A sort that forgets reverse=True.
InsertByScoreAscending(sorted, id, fused_scores) ==
    LET before == {j \in 1..Len(sorted) : fused_scores[sorted[j]] <= fused_scores[id]}
        n == Cardinality(before)
    IN SubSeq(sorted, 1, n) \o <<id>> \o SubSeq(sorted, n + 1, Len(sorted))

\* sorted(fused_scores.keys(), key=lambda id: fused_scores[id], reverse=True):
\* a stable sort, so ids of equal score keep the order of their insertion.
InsertByScore(sorted, id, fused_scores) ==
    LET before == {j \in 1..Len(sorted) : fused_scores[sorted[j]] >= fused_scores[id]}
        n == Cardinality(before)
    IN SubSeq(sorted, 1, n) \o <<id>> \o SubSeq(sorted, n + 1, Len(sorted))

RECURSIVE SortedByScore(_, _, _, _)
SortedByScore(sorted, keys, i, fused_scores) ==
    IF i > Len(keys) THEN sorted
    ELSE SortedByScore(InsertByScore(sorted, keys[i], fused_scores), keys, i + 1, fused_scores)

\* A fusion that gives up when the primary list is empty.
RRFNeedsPrimary(res, kk) ==
    IF res = <<>> \/ res[1] = <<>> THEN <<>>
    ELSE LET acc == ScoreLists([EmptyAcc EXCEPT !.doc_map = SeedDocMap(<<>>, res[1], 1)],
                               res, 1, kk)
             reranked_ids == SortedByScore(<<>>, acc.keys, 1, acc.fused_scores)
         IN [i \in 1..Len(reranked_ids) |->
                [acc.doc_map[reranked_ids[i]] EXCEPT
                    !.rrf_score = Some(acc.fused_scores[reranked_ids[i]])]]

\* reciprocal_rank_fusion(results, k)
RRF(res, kk) ==
    IF res = <<>> THEN <<>>
    ELSE LET vector_results == res[1]
             \* [vector_results] + results[1:] is `res` again
             acc == ScoreLists([EmptyAcc EXCEPT !.doc_map = SeedDocMap(<<>>, vector_results, 1)],
                               res, 1, kk)
             reranked_ids == SortedByScore(<<>>, acc.keys, 1, acc.fused_scores)
         IN [i \in 1..Len(reranked_ids) |->
                [acc.doc_map[reranked_ids[i]] EXCEPT
                    !.rrf_score = Some(acc.fused_scores[reranked_ids[i]])]]

(***************************************************************************)
(* QdrantRepository.  A stored point is its payload: the chunk's content    *)
(* and one filterable metadata field (author).  A chunk's embedding is      *)
(* modelled by its effect: a query embedding is the order of similarity it  *)
(* induces on the chunk ids.                                                *)
(***************************************************************************)
AuthorOf(id) == IF id = "c1" THEN "bob" ELSE "ann"

EmbeddedChunk(id, content) == [id |-> id, content |-> content, author |-> AuthorOf(id)]

\* The contents a chunk id is ingested with: c0 in two versions.
ContentsOf(id) == IF id = "c0" THEN Words ELSE IF id = "c1" THEN {"cats"} ELSE {"space"}

Chunks == UNION {{EmbeddedChunk(id, w) : w \in ContentsOf(id)} : id \in ChunkIds}

\* The arguments of add_documents: no chunk, one chunk or two chunks.
Batches == {<<>>} \cup {<<c>> : c \in Chunks} \cup {<<c, d>> : c \in Chunks, d \in Chunks}

Rankings == {<<"c0", "c1", "c2">>, <<"c2", "c0", "c1">>}

\* filters: None, or {"author": value}
Filters == {None, Some("bob")}

NoPoints == [id \in {} |-> EmbeddedChunk(id, "space")]

Min(a, b) == IF a < b THEN a ELSE b

Take(seq, n) == SubSeq(seq, 1, Min(n, Len(seq)))

\* self.bm25_index = None
NoIndex == [built |-> FALSE, documents |-> <<>>, has_bm25 |-> FALSE]

\* BM25Index(documents): self.documents keeps the given order (the ids are distinct);
\* self.bm25 is None for an empty corpus.
BM25Index(documents) ==
    [built |-> TRUE, documents |-> documents, has_bm25 |-> documents # <<>>]

\* BM25Okapi.get_scores, reduced to keyword overlap of one-word texts.
Bm25Score(query, content) == IF query = content THEN 7 ELSE 0

\* BM25Index.search(query, top_k)
BM25IndexSearch(index, query, top_k) ==
    IF ~index.has_bm25 THEN <<>>
    ELSE LET all_docs == index.documents
             doc_scores == [i \in DOMAIN all_docs |-> Bm25Score(query, all_docs[i].content)]
             top_n_indices ==
                 Take(SortedByScore(<<>>, [i \in DOMAIN all_docs |-> i], 1, doc_scores), top_k)
         IN [j \in DOMAIN top_n_indices |->
                LoadedDocument(all_docs[top_n_indices[j]].id,
                               all_docs[top_n_indices[j]].content,
                               0, Some(doc_scores[top_n_indices[j]]))]

\* QdrantRepository._bm25_search(query, top_k)
Bm25SearchTask(index, query, top_k) ==
    IF ~index.built THEN <<>> ELSE BM25IndexSearch(index, query, top_k)

Similarity(ranking, id) ==
    100 - 10 * (CHOOSE i \in DOMAIN ranking : ranking[i] = id)

\* QdrantRepository._vector_search(query_embedding, top_k, filters): the backend returns
\* the `limit` most similar points that satisfy the filter, best first.
VectorSearchTask(pts, query_embedding, limit, filters) ==
    LET Matches(id) == /\ id \in DOMAIN pts
                       /\ filters = None \/ pts[id].author \in filters
        hits == Take(SelectSeq(query_embedding, Matches), limit)
    IN [i \in DOMAIN hits |->
           LoadedDocument(hits[i], pts[hits[i]].content,
                          Similarity(query_embedding, hits[i]), None)]

\* A search that asks each branch for top_k candidates only.
PoolDepthSingle(top_k) == top_k

\* top_k * 2
PoolDepth(top_k) == top_k * 2

\* A search that returns the whole fused pool.
TruncateNothing(fused_results, top_k) == fused_results

\* fused_results[:top_k]
Truncate(fused_results, top_k) == Take(fused_results, top_k)

\* client.scroll(limit=10_000): the first points in id order
Scroll(pts) == Take(SelectSeq(IdOrder, LAMBDA id : id \in DOMAIN pts), SCROLL_LIMIT)

\* QdrantRepository._build_bm25_index(), given whether the scroll call succeeds
BuildBm25Index(pts, exists, scroll_ok) ==
    IF ~(scroll_ok /\ exists) THEN BM25Index(<<>>)
    ELSE LET all_points == Scroll(pts)
         IN BM25Index([i \in DOMAIN all_points |->
                          [id |-> all_points[i], content |-> pts[all_points[i]].content]])

\* An upsert that leaves a point that is already stored as it is.
RECURSIVE UpsertKeepingOld(_, _, _)
UpsertKeepingOld(pts, documents, i) ==
    IF i > Len(documents) THEN pts
    ELSE LET doc == documents[i]
         IN UpsertKeepingOld(IF doc.id \in DOMAIN pts THEN pts ELSE pts @@ (doc.id :> doc),
                             documents, i + 1)

\* client.upsert(points): later points of the batch replace earlier ones of the same id
RECURSIVE Upsert(_, _, _)
Upsert(pts, documents, i) ==
    IF i > Len(documents) THEN pts
    ELSE LET doc == documents[i]
             rest == [id \in DOMAIN pts \ {doc.id} |-> pts[id]]
         IN Upsert(rest @@ (doc.id :> doc), documents, i + 1)

NoCall == [op |-> "none", raised |-> FALSE, ret |-> <<>>, top_k |-> 0,
           query_text |-> "", query_embedding |-> <<>>, filters |-> None,
           vector_limit |-> 0, bm25_limit |-> 0,
           vector_results |-> <<>>, bm25_results |-> <<>>, documents |-> <<>>]

\* QdrantRepository.initialize(): _ensure_collection_exists, then _build_bm25_index.
\* get_collection raises when the collection is missing, and may raise on a backend
\* error; recreate_collection drops the collection and creates it anew.
Initialize ==
    \/ /\ collection_exists
       /\ \E scroll_ok \in BOOLEAN :
              bm25_index' = BuildBm25Index(points, collection_exists, scroll_ok)
       /\ repoCall' = [NoCall EXCEPT !.op = "initialize"]
       /\ UNCHANGED <<collection_exists, points>>
       /\ UNCHANGED <<fusionVars, memVars, stepVars, chatVars>>
       /\ UNCHANGED <<tokenVars, taskVars, splitVars>>
    \/ /\ collection_exists' = TRUE
       /\ points' = NoPoints
       /\ \E scroll_ok \in BOOLEAN :
              bm25_index' = BuildBm25Index(NoPoints, TRUE, scroll_ok)
       /\ repoCall' = [NoCall EXCEPT !.op = "initialize"]
       /\ UNCHANGED <<fusionVars, memVars, stepVars, chatVars>>
       /\ UNCHANGED <<tokenVars, taskVars, splitVars>>
    \/ /\ repoCall' = [NoCall EXCEPT !.op = "initialize", !.raised = TRUE]
       /\ UNCHANGED <<collection_exists, points, bm25_index>>
       /\ UNCHANGED <<fusionVars, memVars, stepVars, chatVars>>
       /\ UNCHANGED <<tokenVars, taskVars, splitVars>>

\* QdrantRepository.add_documents(documents)
AddDocuments ==
    \E documents \in Batches :
        LET call == [NoCall EXCEPT !.op = "add_documents", !.documents = documents]
        IN \/ \* if not documents: return []
              /\ documents = <<>>
              /\ repoCall' = call
              /\ UNCHANGED <<collection_exists, points, bm25_index>>
              /\ UNCHANGED <<fusionVars, memVars, stepVars, chatVars>>
              /\ UNCHANGED <<tokenVars, taskVars, splitVars>>
           \/ \* client.upsert raises
              /\ documents # <<>>
              /\ repoCall' = [call EXCEPT !.raised = TRUE]
              /\ UNCHANGED <<collection_exists, points, bm25_index>>
              /\ UNCHANGED <<fusionVars, memVars, stepVars, chatVars>>
              /\ UNCHANGED <<tokenVars, taskVars, splitVars>>
           \/ \* status != COMPLETED: the write is queued and may or may not be applied
              /\ documents # <<>>
              /\ collection_exists
              /\ \E applied \in BOOLEAN :
                     points' = IF applied THEN Upsert(points, documents, 1) ELSE points
              /\ repoCall' = call
              /\ UNCHANGED <<collection_exists, bm25_index>>
              /\ UNCHANGED <<fusionVars, memVars, stepVars, chatVars>>
              /\ UNCHANGED <<tokenVars, taskVars, splitVars>>
           \/ /\ documents # <<>>
              /\ collection_exists
              /\ points' = Upsert(points, documents, 1)
              /\ \E scroll_ok \in BOOLEAN :
                     bm25_index' = BuildBm25Index(points', collection_exists, scroll_ok)
              /\ repoCall' = [call EXCEPT !.ret = [i \in DOMAIN documents |-> documents[i].id]]
              /\ UNCHANGED collection_exists
              /\ UNCHANGED <<fusionVars, memVars, stepVars, chatVars>>
              /\ UNCHANGED <<tokenVars, taskVars, splitVars>>

\* QdrantRepository.search(query_text, query_embedding, top_k, filters)
Search ==
    \E top_k \in 0..MaxTopK, query_text \in Words, query_embedding \in Rankings,
       filters \in Filters :
        LET vector_limit == PoolDepth(top_k)
            bm25_limit == PoolDepth(top_k)
            bm25_results == Bm25SearchTask(bm25_index, query_text, bm25_limit)
            vector_results == VectorSearchTask(points, query_embedding, vector_limit, filters)
            fused_results == RRF(<<vector_results, bm25_results>>, DEFAULT_K)
            call == [NoCall EXCEPT !.op = "search", !.top_k = top_k,
                                   !.query_text = query_text,
                                   !.query_embedding = query_embedding,
                                   !.filters = filters,
                                   !.vector_limit = vector_limit, !.bm25_limit = bm25_limit]
        IN \/ /\ collection_exists
              /\ repoCall' = [call EXCEPT !.vector_results = vector_results,
                                          !.bm25_results = bm25_results,
                                          !.ret = Truncate(fused_results, top_k)]
              /\ UNCHANGED <<collection_exists, points, bm25_index>>
              /\ UNCHANGED <<fusionVars, memVars, stepVars, chatVars>>
              /\ UNCHANGED <<tokenVars, taskVars, splitVars>>
           \/ \* client.search raises; the exception leaves search()
              /\ repoCall' = [call EXCEPT !.raised = TRUE]
              /\ UNCHANGED <<collection_exists, points, bm25_index>>
              /\ UNCHANGED <<fusionVars, memVars, stepVars, chatVars>>
              /\ UNCHANGED <<tokenVars, taskVars, splitVars>>

\* A clear_collection that deletes the points and keeps the lexical index.
ClearCollectionKeepingIndex ==
    \/ /\ collection_exists
       /\ points' = NoPoints
       /\ repoCall' = [NoCall EXCEPT !.op = "clear_collection", !.ret = TRUE]
       /\ UNCHANGED <<collection_exists, bm25_index>>
       /\ UNCHANGED <<fusionVars, memVars, stepVars, chatVars>>
       /\ UNCHANGED <<tokenVars, taskVars, splitVars>>
    \/ /\ repoCall' = [NoCall EXCEPT !.op = "clear_collection", !.ret = FALSE]
       /\ UNCHANGED <<collection_exists, points, bm25_index>>
       /\ UNCHANGED <<fusionVars, memVars, stepVars, chatVars>>
       /\ UNCHANGED <<tokenVars, taskVars, splitVars>>

\* QdrantRepository.clear_collection()
ClearCollection ==
    \/ /\ collection_exists
       /\ points' = NoPoints
       /\ bm25_index' = BM25Index(<<>>)
       /\ repoCall' = [NoCall EXCEPT !.op = "clear_collection", !.ret = TRUE]
       /\ UNCHANGED collection_exists
       /\ UNCHANGED <<fusionVars, memVars, stepVars, chatVars>>
       /\ UNCHANGED <<tokenVars, taskVars, splitVars>>
    \/ \* client.delete raises
       /\ repoCall' = [NoCall EXCEPT !.op = "clear_collection", !.ret = FALSE]
       /\ UNCHANGED <<collection_exists, points, bm25_index>>
       /\ UNCHANGED <<fusionVars, memVars, stepVars, chatVars>>
       /\ UNCHANGED <<tokenVars, taskVars, splitVars>>


(***************************************************************************)
(* MemoryService.  A string that the code splits on ":" is the sequence of  *)
(* its ":"-separated parts, so the user id "a:7" is <<"a", "7">> and the    *)
(* key "memory:chat:7" is <<"memory", "chat", "7">>.                        *)
(***************************************************************************)
Users == {<<"7">>, <<"a", "7">>}

MEMORY_KEY_PREFIX == <<"memory", "chat">>

\* _get_user_memory_key: f"{MEMORY_KEY_PREFIX}{user_id}"
GetUserMemoryKey(user_id) == MEMORY_KEY_PREFIX \o user_id

\* redis_key.split(":")[-1]
LastPart(redis_key) == <<redis_key[Len(redis_key)]>>

Keys == {GetUserMemoryKey(u) : u \in Users}

ChatMessage(role, content) == [role |-> role, content |-> content]

\* The turns handed to add_message_to_history.
Turns == {ChatMessage("user", "hi"), ChatMessage("assistant", "essay"),
          ChatMessage("user", "tome")}

\* The turns of the runs that follow the long-term archive.
ArchiveTurns == {ChatMessage("user", "hi"), ChatMessage("user", "tome")}

\* The turn of the runs that follow the summarization: short enough for a log to
\* pass SUMMARY_THRESHOLD messages within the token budget.
SummaryTurns == {ChatMessage("user", "ok")}

\* The text the summarization call returns, behind its fixed prefix.
SummaryMessage == ChatMessage("system", "Summary of earlier conversation: sum")

\* message.model_dump_json()
ModelDumpJson(message) == <<"role", message.role, "content", message.content>>

\* ChatMessage.model_validate_json(item)
ModelValidateJson(item) == ChatMessage(item[2], item[4])

\* len(self.tokenizer(content.encode("utf-8"))): the injected tokenizer, by the number
\* of tokens it yields
Tokenizer(content) ==
    IF content = "hi" THEN 250
    ELSE IF content = "essay" THEN 1100
    ELSE IF content = "tome" THEN 2100
    ELSE 120

\* role.capitalize()
Capitalize(role) ==
    IF role = "user" THEN "User" ELSE IF role = "assistant" THEN "Assistant" ELSE "System"

\* Document(text=f"{role.capitalize()}: {content}", metadata={"user_id": str(user_id)})
Document(role, content, user_id) ==
    [text |-> <<Capitalize(role), content>>, user_id |-> user_id]

\* get_history(user_id), on a given store
GetHistoryOf(store, user_id) ==
    LET history_json_strings == store[GetUserMemoryKey(user_id)]
    IN [i \in DOMAIN history_json_strings |-> ModelValidateJson(history_json_strings[i])]

RECURSIVE TotalTokens(_)
TotalTokens(history) ==
    IF history = <<>> THEN 0
    ELSE Tokenizer(Head(history).content) + TotalTokens(Tail(history))

\* A pruning that pops from the right end of the list.
RECURSIVE PruneNewest(_, _)
PruneNewest(list, total_tokens) ==
    IF total_tokens > MAX_HISTORY_TOKENS /\ list # <<>>
    THEN PruneNewest(SubSeq(list, 1, Len(list) - 1),
                     total_tokens - Tokenizer(ModelValidateJson(list[Len(list)]).content))
    ELSE list

\* while total_tokens > MAX_HISTORY_TOKENS: lpop; stop on an empty list;
\* total_tokens -= tokens of the removed message
RECURSIVE Prune(_, _)
Prune(list, total_tokens) ==
    IF total_tokens > MAX_HISTORY_TOKENS /\ list # <<>>
    THEN Prune(Tail(list),
               total_tokens - Tokenizer(ModelValidateJson(Head(list)).content))
    ELSE list

\* pipe.ltrim(redis_key, MESSAGES_TO_SUMMARIZE, -1); pipe.lpush(redis_key, summary)
Summarized(list) ==
    <<ModelDumpJson(SummaryMessage)>> \o SubSeq(list, MESSAGES_TO_SUMMARIZE + 1, Len(list))

\* _prune_and_summarize_history(redis_key), on the store after the rpush; `summary_ok`
\* tells whether llm_adapter.acomplete returns
PruneAndSummarize(store, redis_key, adapter, summary_ok) ==
    LET history == GetHistoryOf(store, LastPart(redis_key))
        summarize == adapter /\ Len(history) > SUMMARY_THRESHOLD /\ summary_ok
        store1 == IF summarize
                  THEN [store EXCEPT ![redis_key] = Summarized(@)]
                  ELSE store
        history1 == IF summarize THEN GetHistoryOf(store1, LastPart(redis_key)) ELSE history
    IN [store1 EXCEPT ![redis_key] = Prune(@, TotalTokens(history1))]

NoMemCall == [op |-> "none", user_id |-> <<>>, role |-> "", content |-> "",
              before |-> <<>>, insert_ok |-> FALSE, summary |-> "none",
              ret |-> <<>>, status |-> 0, client_ret |-> FALSE]

\* An insert that tags the node with the last part of the user id only.
LongTermAfterAddMistagged(archive, doc, insert_ok) ==
    IF chat_history_index /\ insert_ok
    THEN archive \cup {[doc EXCEPT !.user_id = LastPart(@)]}
    ELSE archive

\* add_message_to_history, step 1: chat_history_index.ainsert_nodes([doc]); an
\* exception of the insert is logged and swallowed
LongTermAfterAdd(archive, doc, insert_ok) ==
    IF chat_history_index /\ insert_ok THEN archive \cup {doc} ELSE archive

\* What became of the summarization of _prune_and_summarize_history(redis_key) on
\* `store`: no call of llm_adapter.acomplete ("none"), a call that returned ("ok"),
\* a call that raised ("failed")
SummaryOutcome(store, redis_key, adapter, summary_ok) ==
    IF adapter /\ Len(GetHistoryOf(store, LastPart(redis_key))) > SUMMARY_THRESHOLD
    THEN IF summary_ok THEN "ok" ELSE "failed"
    ELSE "none"

\* add_message_to_history(user_id, role, content), for callers U and turns T
AddMessageToHistory(U, T) ==
    \E user_id \in U, turn \in T, insert_ok \in BOOLEAN, summary_ok \in BOOLEAN :
        LET redis_key == GetUserMemoryKey(user_id)
            doc == Document(turn.role, turn.content, user_id)
            pushed == [redis EXCEPT ![redis_key] = Append(@, ModelDumpJson(turn))]
        IN \* the model follows a log until it first exceeds the budget
           /\ TotalTokens(GetHistoryOf(redis, user_id)) <= MAX_HISTORY_TOKENS
           \* the outcome of a call that is not made is not drawn
           /\ insert_ok \/ chat_history_index
           /\ summary_ok \/ (llm_adapter /\ Len(GetHistoryOf(pushed, LastPart(redis_key)))
                                                > SUMMARY_THRESHOLD)
           /\ ltm' = LongTermAfterAdd(ltm, doc, insert_ok)
           /\ redis' = PruneAndSummarize(pushed, redis_key, llm_adapter, summary_ok)
           /\ memCall' = [NoMemCall EXCEPT !.op = "add", !.user_id = user_id,
                                           !.role = turn.role, !.content = turn.content,
                                           !.insert_ok = chat_history_index /\ insert_ok,
                                           !.summary = SummaryOutcome(pushed, redis_key,
                                                                      llm_adapter, summary_ok),
                                           !.before = GetHistoryOf(redis, user_id)]
           /\ UNCHANGED <<llm_adapter, chat_history_index>>
           /\ UNCHANGED <<fusionVars, repoVars, stepVars, chatVars>>
           /\ UNCHANGED <<tokenVars, taskVars, splitVars>>

\* get_history(user_id)
GetHistory(U) ==
    \E user_id \in U :
        /\ memCall' = [NoMemCall EXCEPT !.op = "get_history", !.user_id = user_id,
                                        !.before = GetHistoryOf(redis, user_id),
                                        !.ret = GetHistoryOf(redis, user_id)]
        /\ UNCHANGED <<llm_adapter, chat_history_index, redis, ltm>>
        /\ UNCHANGED <<fusionVars, repoVars, stepVars, chatVars>>
        /\ UNCHANGED <<tokenVars, taskVars, splitVars>>

\* clear_history, step 2: the deletion from the long-term index is a placeholder
\* that only logs
LongTermAfterClear(archive, user_id) == archive

\* RagApiClient.clear_user_memory(user_id) -> DELETE /history/{user_id} ->
\* clear_user_history -> MemoryService.clear_history(user_id)
ClearHistory(U) ==
    \E user_id \in U :
        \/ \* clear_history returns, the route answers 204, the client returns True
           /\ redis' = [redis EXCEPT ![GetUserMemoryKey(user_id)] = <<>>]
           /\ ltm' = LongTermAfterClear(ltm, user_id)
           /\ memCall' = [NoMemCall EXCEPT !.op = "clear_history", !.user_id = user_id,
                                           !.before = GetHistoryOf(redis, user_id),
                                           !.status = 204, !.client_ret = TRUE]
           /\ UNCHANGED <<llm_adapter, chat_history_index>>
           /\ UNCHANGED <<fusionVars, repoVars, stepVars, chatVars>>
           /\ UNCHANGED <<tokenVars, taskVars, splitVars>>
        \/ \* the request does not reach the API: httpx.RequestError, False
           /\ memCall' = [NoMemCall EXCEPT !.op = "clear_history", !.user_id = user_id,
                                           !.before = GetHistoryOf(redis, user_id)]
           /\ UNCHANGED <<llm_adapter, chat_history_index, redis, ltm>>
           /\ UNCHANGED <<fusionVars, repoVars, stepVars, chatVars>>
           /\ UNCHANGED <<tokenVars, taskVars, splitVars>>

(***************************************************************************)
(* The pipeline steps of rag_steps.py.  A string is the sequence of its      *)
(* tokens, " " being whitespace; a text is the sequence of its lines, as    *)
(* split('\n') yields them.                                                 *)
(***************************************************************************)
MaxLines == 3

DEFAULT_TOP_K == 3

Space == " "

RECURSIVE LStrip(_)
LStrip(str) == IF str # <<>> /\ Head(str) = Space THEN LStrip(Tail(str)) ELSE str

RECURSIVE RStrip(_)
RStrip(str) ==
    IF str # <<>> /\ str[Len(str)] = Space THEN RStrip(SubSeq(str, 1, Len(str) - 1)) ELSE str

\* str.strip()
Strip(str) == LStrip(RStrip(str))

\* content.strip().split('\n'): the blank lines at both ends go, the first line left
\* loses its leading and the last its trailing whitespace
StripSplit(content) ==
    LET inked == {i \in DOMAIN content : Strip(content[i]) # <<>>}
    IN IF inked = {} THEN << <<>> >>
       ELSE LET lo == CHOOSE i \in inked : \A j \in inked : i <= j
                hi == CHOOSE i \in inked : \A j \in inked : j <= i
            IN [i \in 1..(hi - lo + 1) |->
                   LET line == content[lo + i - 1]
                   IN IF lo = hi THEN Strip(line)
                      ELSE IF i = 1 THEN LStrip(line)
                      ELSE IF i = hi - lo + 1 THEN RStrip(line)
                      ELSE line]

\* RAGQuery(original_query=...): expanded_queries defaults to [], filters to None
RAGQuery(original_query) ==
    [original_query |-> original_query, expanded_queries |-> <<>>, filters |-> None]

\* RAGQuery.get_queries_for_search()
GetQueriesForSearch(q) ==
    IF q.expanded_queries # <<>> THEN q.expanded_queries ELSE <<q.original_query>>

OriginalQueries == {<<"q0">>, <<Space, "q0">>}

\* The lines a generated text is made of.
Lines == {<<>>, <<Space>>, <<"q0">>, <<Space, "q1", Space>>, <<"q2">>, <<"q3">>}

Texts == UNION {[1..n -> Lines] : n \in 1..MaxLines}

\* What llm_client.chat.completions.create can do: raise (timeout, transport), answer
\* without a choice, answer with message.content None, answer with a text.
Responses ==
    {[kind |-> kind, content |-> <<>>] : kind \in {"raises", "no_choices", "no_content"}}
        \cup {[kind |-> "text", content |-> content] : content \in Texts}

\* The numbers of queries a QueryExpansionStep is constructed with.
NumQueries == 0..3

\* An expansion that is enabled from one query on.
EnabledFromOne(n) == n >= 1

\* self.enabled = self.num_queries > 1
Enabled(n) == n > 1

\* A list(...) of the queries that keeps the repetitions.
FromKeysKeepingAll(acc, keys) == acc \o keys

\* list(dict.fromkeys(all_queries)): the first occurrence of each key, in order
RECURSIVE FromKeys(_, _)
FromKeys(acc, keys) ==
    IF keys = <<>> THEN acc
    ELSE FromKeys(IF \E i \in DOMAIN acc : acc[i] = Head(keys) THEN acc
                  ELSE Append(acc, Head(keys)),
                  Tail(keys))

\* [q.strip() for q in generated_text.split('\n') if q.strip()]
ExpandedQueries(content) ==
    LET lines == StripSplit(content)
        stripped == [i \in DOMAIN lines |-> Strip(lines[i])]
    IN SelectSeq(stripped, LAMBDA q : q # <<>>)

\* QueryExpansionStep.transform(query), given what the generation call does
QueryExpansionTransform(q, n, resp) ==
    IF ~Enabled(n) THEN [q EXCEPT !.expanded_queries = <<q.original_query>>]
    ELSE IF resp.kind # "text"
         THEN \* except Exception
              [q EXCEPT !.expanded_queries = <<q.original_query>>]
         ELSE LET all_queries == <<q.original_query>> \o ExpandedQueries(resp.content)
              IN [q EXCEPT !.expanded_queries = FromKeys(<<>>, all_queries)]

NoStepCall == [op |-> "none", raised |-> FALSE, entry |-> RAGQuery(<<>>),
               llm_calls |-> 0, outcome |-> "", extracted |-> <<>>,
               documents |-> <<>>, kwargs |-> None, predict_calls |-> 0,
               pairs |-> <<>>, scores |-> <<>>, ret |-> <<>>]

\* QueryExpansionStep.transform(query): one call on a new query
Expand ==
    /\ stepCall.op = "none"
    /\ rag_query' = QueryExpansionTransform(rag_query, num_queries, response)
    /\ stepCall' = [NoStepCall EXCEPT !.op = "expand", !.entry = rag_query,
                                      !.llm_calls = IF Enabled(num_queries) THEN 1 ELSE 0,
                                      !.outcome = IF Enabled(num_queries)
                                                  THEN response.kind ELSE "",
                                      !.ret = rag_query'.expanded_queries]
    /\ UNCHANGED <<num_queries, response>>
    /\ UNCHANGED <<fusionVars, repoVars, memVars, chatVars>>
    /\ UNCHANGED <<tokenVars, taskVars, splitVars>>

\* ExtractedFilters(author=..., document_type=...)
ExtractedFilters(author, document_type) ==
    [author |-> author, document_type |-> document_type]

Extractions ==
    {ExtractedFilters(author, document_type) :
        author \in {None, Some("bob"), Some("ann")},
        document_type \in {None, Some("manual"), Some("report")}}

\* extracted_data.model_dump(exclude_none=True)
ModelDump(extracted_data) ==
    [field \in {f \in {"author", "document_type"} : extracted_data[f] # None} |->
        CHOOSE value \in extracted_data[field] : TRUE]

\* SelfQueryStep.transform(query), given the extraction or its failure (malformed
\* JSON, schema violation and transport error all raise out of create)
SelfQueryTransform(q, raises, extracted_data) ==
    IF raises THEN [q EXCEPT !.filters = None]
    ELSE LET filters == ModelDump(extracted_data)
         IN IF DOMAIN filters # {} THEN [q EXCEPT !.filters = Some(filters)] ELSE q

\* SelfQueryStep.transform(query)
SelfQuery ==
    \E raises \in BOOLEAN, extracted_data \in Extractions :
        /\ raises => extracted_data = ExtractedFilters(None, None)
        /\ rag_query' = SelfQueryTransform(rag_query, raises, extracted_data)
        /\ stepCall' = [NoStepCall EXCEPT !.op = "self_query", !.entry = rag_query,
                                          !.llm_calls = 1,
                                          !.outcome = IF raises THEN "raises" ELSE "data",
                                          !.extracted = ModelDump(extracted_data)]
        /\ UNCHANGED <<num_queries, response>>
        /\ UNCHANGED <<fusionVars, repoVars, memVars, chatVars>>
        /\ UNCHANGED <<tokenVars, taskVars, splitVars>>

\* A LoadedDocument as a search returns it: rerank_score defaults to None.
Candidate(id, score, rrf) ==
    [id |-> id, content |-> <<"text", id>>, score |-> score,
     bm25_score |-> None, rrf_score |-> Some(rrf), rerank_score |-> None]

CandidateOrders == {<<"d0", "d1", "d2", "d3">>, <<"d2", "d0", "d3", "d1">>}

\* The candidate lists handed to rerank: the first n of a fused ranking.
CandidateLists ==
    {[i \in 1..n |-> Candidate(order[i], 90 - 10 * i, 40 - i)] :
        order \in CandidateOrders, n \in 0..4}

ScoreValues == {1, 2}

\* kwargs.get("top_k", 3)
TopKOf(kwargs) == IF kwargs = None THEN DEFAULT_TOP_K ELSE CHOOSE top_k \in kwargs : TRUE

\* An assignment that writes the relevance score over the vector score.
AssignOverVectorScore(doc, score) == [doc EXCEPT !.score = score, !.rerank_score = Some(score)]

\* doc.rerank_score = score
AssignRerankScore(doc, score) == [doc EXCEPT !.rerank_score = Some(score)]

\* A rerank that gives up with no candidate when predict raises.
RerankEmptyOnFailure(q, documents, kwargs, raises, scores) ==
    LET top_k == TopKOf(kwargs)
        pairs == [i \in DOMAIN documents |-> <<q.original_query, documents[i].content>>]
    IN IF documents = <<>>
       THEN [predict_calls |-> 0, pairs |-> <<>>, ret |-> <<>>]
       ELSE IF raises
            THEN [predict_calls |-> 1, pairs |-> pairs, ret |-> <<>>]
            ELSE LET scored == [i \in DOMAIN documents |->
                                   AssignRerankScore(documents[i], scores[i])]
                     order == SortedByScore(<<>>, [i \in DOMAIN documents |-> i], 1, scores)
                     sorted_documents == [j \in DOMAIN order |-> scored[order[j]]]
                 IN [predict_calls |-> 1, pairs |-> pairs,
                     ret |-> Take(sorted_documents, top_k)]

\* A rerank that hands an empty list of pairs to predict.
RerankWithoutEmptyGuard(q, documents, kwargs, raises, scores) ==
    LET top_k == TopKOf(kwargs)
        pairs == [i \in DOMAIN documents |-> <<q.original_query, documents[i].content>>]
    IN IF raises
       THEN [predict_calls |-> 1, pairs |-> pairs, ret |-> Take(documents, top_k)]
       ELSE LET scored == [i \in DOMAIN documents |->
                              AssignRerankScore(documents[i], scores[i])]
                order == SortedByScore(<<>>, [i \in DOMAIN documents |-> i], 1, scores)
                sorted_documents == [j \in DOMAIN order |-> scored[order[j]]]
            IN [predict_calls |-> 1, pairs |-> pairs,
                ret |-> Take(sorted_documents, top_k)]

\* CrossEncoderReranker.rerank(query, documents, **kwargs), given whether predict
\* raises and the scores it returns, one per pair
Rerank(q, documents, kwargs, raises, scores) ==
    LET top_k == TopKOf(kwargs)
        pairs == [i \in DOMAIN documents |-> <<q.original_query, documents[i].content>>]
    IN IF documents = <<>>
       THEN [predict_calls |-> 0, pairs |-> <<>>, ret |-> <<>>]
       ELSE IF raises
            THEN [predict_calls |-> 1, pairs |-> pairs, ret |-> Take(documents, top_k)]
            ELSE LET scored == [i \in DOMAIN documents |->
                                   AssignRerankScore(documents[i], scores[i])]
                     order == SortedByScore(<<>>, [i \in DOMAIN documents |-> i], 1, scores)
                     sorted_documents == [j \in DOMAIN order |-> scored[order[j]]]
                 IN [predict_calls |-> 1, pairs |-> pairs,
                     ret |-> Take(sorted_documents, top_k)]

\* CrossEncoderReranker.rerank(query, documents, top_k=...)
RerankCall ==
    \E documents \in CandidateLists, kwargs \in {None} \cup {Some(n) : n \in 0..2},
       raises \in BOOLEAN :
        \E scores \in [DOMAIN documents -> ScoreValues] :
            LET out == Rerank(rag_query, documents, kwargs, raises, scores)
            IN /\ raises => \A i \in DOMAIN scores : scores[i] = 1
               /\ stepCall' = [NoStepCall EXCEPT !.op = "rerank", !.entry = rag_query,
                                                 !.documents = documents,
                                                 !.kwargs = kwargs,
                                                 !.outcome = IF out.predict_calls = 0 THEN ""
                                                             ELSE IF raises THEN "raises"
                                                             ELSE "scores",
                                                 !.scores = IF raises THEN <<>> ELSE scores,
                                                 !.predict_calls = out.predict_calls,
                                                 !.pairs = out.pairs,
                                                 !.ret = out.ret]
               /\ UNCHANGED <<rag_query, num_queries, response>>
               /\ UNCHANGED <<fusionVars, repoVars, memVars, chatVars>>
               /\ UNCHANGED <<tokenVars, taskVars, splitVars>>

(***************************************************************************)
(* generate_chat_response(llm, memory_service, kb_rag_engine, user_id,      *)
(* user_prompt): one process per request, one step per awaited call.        *)
(***************************************************************************)
MaxTurns == 2

SIMILARITY_TOP_K == 3

Requests == 1..MaxTurns

\* The user ids and the prompts of the requests.
ChatUsers == {<<"7">>}

UserPrompts == {"hi"}

\* response.message.content of llm.achat, before strip()
GeneratedContents == {<<Space, "reply">>}

\* The text of a stripped one-word content.
TextOf(str) == IF str = <<>> THEN "" ELSE str[1]

\* [node.get_content() for node in retrieval_response.source_nodes]
KbResults == {<<>>, <<"kb1">>}

NewRequest ==
    [pc |-> "new", user_id |-> <<>>, user_prompt |-> "",
     kb_calls |-> 0, kb_failed |-> FALSE, kb_context_chunks |-> <<>>,
     chat_calls |-> 0, chat_failed |-> FALSE, chat_history_chunks |-> {},
     history |-> <<>>, prompted |-> FALSE, messages_for_llm |-> <<>>,
     generated_text |-> "", raised |-> FALSE]

\* build_chat_prompt(history, user_prompt, kb_context_chunks, chat_context_chunks):
\* the system message carries the knowledge-base chunks, the few-shot examples come
\* only without them, then the history and the prompt; chat_context_chunks is not
\* read.
BuildChatPrompt(history, user_prompt, kb_context_chunks, chat_context_chunks) ==
    [context |-> kb_context_chunks,
     few_shot |-> kb_context_chunks = <<>>,
     history |-> history,
     user_prompt |-> user_prompt]

\* VectorIndexRetriever(where={"user_id": user_id}, similarity_top_k=3).aretrieve:
\* the texts of at most 3 nodes of the user, as a set
ChatHistoryHits(archive, user_id) ==
    LET matching == {doc.text : doc \in {d \in archive : d.user_id = user_id}}
    IN {hits \in SUBSET matching :
            Cardinality(hits) = Min(SIMILARITY_TOP_K, Cardinality(matching))}

\* if not llm or not memory_service: raise RuntimeError
StartTurn(r) ==
    /\ chat[r].pc = "new"
    /\ \E user_id \in ChatUsers, user_prompt \in UserPrompts, provided \in BOOLEAN :
           chat' = [chat EXCEPT ![r] =
                       [@ EXCEPT !.pc = IF provided THEN "kb" ELSE "raised",
                                 !.raised = ~provided,
                                 !.user_id = user_id, !.user_prompt = user_prompt]]
    /\ UNCHANGED kb_rag_engine
    /\ UNCHANGED <<fusionVars, repoVars, memVars, stepVars>>
    /\ UNCHANGED <<tokenVars, taskVars, splitVars>>

\* A knowledge-base retrieval whose exception leaves generate_chat_response.
KbRetrievalPropagating(r) ==
    /\ chat[r].pc = "kb"
    /\ \/ /\ kb_rag_engine
          /\ \E chunks \in KbResults :
                 chat' = [chat EXCEPT ![r] =
                             [@ EXCEPT !.pc = "chat", !.kb_calls = @ + 1,
                                       !.kb_context_chunks = chunks]]
       \/ /\ kb_rag_engine
          /\ chat' = [chat EXCEPT ![r] =
                         [@ EXCEPT !.pc = "raised", !.raised = TRUE,
                                   !.kb_calls = @ + 1, !.kb_failed = TRUE]]
       \/ /\ ~kb_rag_engine
          /\ chat' = [chat EXCEPT ![r] = [@ EXCEPT !.pc = "chat"]]
    /\ UNCHANGED kb_rag_engine
    /\ UNCHANGED <<fusionVars, repoVars, memVars, stepVars>>
    /\ UNCHANGED <<tokenVars, taskVars, splitVars>>

\* 1a. kb_rag_engine.aquery(user_prompt); an exception is logged, the chunks stay []
KbRetrieval(r) ==
    /\ chat[r].pc = "kb"
    /\ \/ /\ kb_rag_engine
          /\ \E chunks \in KbResults :
                 chat' = [chat EXCEPT ![r] =
                             [@ EXCEPT !.pc = "chat", !.kb_calls = @ + 1,
                                       !.kb_context_chunks = chunks]]
       \/ /\ kb_rag_engine
          /\ chat' = [chat EXCEPT ![r] =
                         [@ EXCEPT !.pc = "chat", !.kb_calls = @ + 1,
                                   !.kb_failed = TRUE]]
       \/ /\ ~kb_rag_engine
          /\ chat' = [chat EXCEPT ![r] = [@ EXCEPT !.pc = "chat"]]
    /\ UNCHANGED kb_rag_engine
    /\ UNCHANGED <<fusionVars, repoVars, memVars, stepVars>>
    /\ UNCHANGED <<tokenVars, taskVars, splitVars>>

\* 1b. history_retriever.aretrieve(user_prompt), filtered by user_id; an exception is
\* logged, the chunks stay []
ChatRetrieval(r) ==
    /\ chat[r].pc = "chat"
    /\ \/ /\ chat_history_index
          /\ \E hits \in ChatHistoryHits(ltm, chat[r].user_id) :
                 chat' = [chat EXCEPT ![r] =
                             [@ EXCEPT !.pc = "history", !.chat_calls = @ + 1,
                                       !.chat_history_chunks = hits]]
       \/ /\ chat_history_index
          /\ chat' = [chat EXCEPT ![r] =
                         [@ EXCEPT !.pc = "history", !.chat_calls = @ + 1,
                                   !.chat_failed = TRUE]]
       \/ /\ ~chat_history_index
          /\ chat' = [chat EXCEPT ![r] = [@ EXCEPT !.pc = "history"]]
    /\ UNCHANGED kb_rag_engine
    /\ UNCHANGED <<fusionVars, repoVars, memVars, stepVars>>
    /\ UNCHANGED <<tokenVars, taskVars, splitVars>>

\* 2. memory_service.get_history(user_id); 3. build_chat_prompt(...)
HistoryAndPrompt(r) ==
    /\ chat[r].pc = "history"
    /\ LET history == GetHistoryOf(redis, chat[r].user_id)
       IN chat' = [chat EXCEPT ![r] =
                      [@ EXCEPT !.pc = "generate", !.history = history,
                                !.prompted = TRUE,
                                !.messages_for_llm =
                                    BuildChatPrompt(history, chat[r].user_prompt,
                                                    chat[r].kb_context_chunks,
                                                    chat[r].chat_history_chunks)]]
    /\ UNCHANGED kb_rag_engine
    /\ UNCHANGED <<fusionVars, repoVars, memVars, stepVars>>
    /\ UNCHANGED <<tokenVars, taskVars, splitVars>>

\* 4. llm.achat(messages_for_llm); an exception leaves generate_chat_response
Generate(r) ==
    /\ chat[r].pc = "generate"
    /\ \/ \E content \in GeneratedContents :
              chat' = [chat EXCEPT ![r] =
                          [@ EXCEPT !.pc = "add_user",
                                    !.generated_text = TextOf(Strip(content))]]
       \/ chat' = [chat EXCEPT ![r] = [@ EXCEPT !.pc = "raised", !.raised = TRUE]]
    /\ UNCHANGED kb_rag_engine
    /\ UNCHANGED <<fusionVars, repoVars, memVars, stepVars>>
    /\ UNCHANGED <<tokenVars, taskVars, splitVars>>

\* memory_service.add_message_to_history(user_id, role, content) within a turn
TurnAdd(user_id, role, content) ==
    \E insert_ok \in BOOLEAN :
        LET redis_key == GetUserMemoryKey(user_id)
            doc == Document(role, content, user_id)
            pushed == [redis EXCEPT ![redis_key] = Append(@, ModelDumpJson(ChatMessage(role, content)))]
        IN /\ insert_ok \/ chat_history_index
           /\ ltm' = LongTermAfterAdd(ltm, doc, insert_ok)
           /\ redis' = PruneAndSummarize(pushed, redis_key, llm_adapter, FALSE)
           /\ memCall' = [NoMemCall EXCEPT !.op = "add", !.user_id = user_id,
                                           !.role = role, !.content = content,
                                           !.insert_ok = chat_history_index /\ insert_ok,
                                           !.before = GetHistoryOf(redis, user_id)]
           /\ UNCHANGED <<llm_adapter, chat_history_index>>

\* 5. add_message_to_history(user_id, "user", user_prompt)
AddUserTurn(r) ==
    /\ chat[r].pc = "add_user"
    /\ TurnAdd(chat[r].user_id, "user", chat[r].user_prompt)
    /\ chat' = [chat EXCEPT ![r] = [@ EXCEPT !.pc = "add_assistant"]]
    /\ UNCHANGED kb_rag_engine
    /\ UNCHANGED <<fusionVars, repoVars, stepVars>>
    /\ UNCHANGED <<tokenVars, taskVars, splitVars>>

\* 5. add_message_to_history(user_id, "assistant", generated_text); return
AddAssistantTurn(r) ==
    /\ chat[r].pc = "add_assistant"
    /\ TurnAdd(chat[r].user_id, "assistant", chat[r].generated_text)
    /\ chat' = [chat EXCEPT ![r] = [@ EXCEPT !.pc = "done"]]
    /\ UNCHANGED kb_rag_engine
    /\ UNCHANGED <<fusionVars, repoVars, stepVars>>
    /\ UNCHANGED <<tokenVars, taskVars, splitVars>>

(***************************************************************************)
(* The inputs of the fusion: each list has distinct ids and is in the order *)
(* its search returned it, best first.  A dense list carries similarity     *)
(* scores and no bm25_score; a lexical list carries score 0.0 and a         *)
(* bm25_score (BM25Index.search).                                           *)
(***************************************************************************)
IdSeqs == {s \in UNION {[1..n -> ChunkIds] : n \in 0..MaxLen} :
              \A i, j \in DOMAIN s : i # j => s[i] # s[j]}

DenseList(ids, base) ==
    [i \in DOMAIN ids |-> LoadedDocument(ids[i], "space", base - 10 * i, None)]

LexicalList(ids) ==
    [i \in DOMAIN ids |-> LoadedDocument(ids[i], "space", 0, Some(20 - 3 * i))]

PrimaryLists == {DenseList(ids, 90) : ids \in IdSeqs}

SecondaryLists == {DenseList(ids, 85) : ids \in IdSeqs} \cup {LexicalList(ids) : ids \in IdSeqs}

FusionInputs ==
    {<<>>} \cup {<<p>> : p \in PrimaryLists}
           \cup {<<p, a>> : p \in PrimaryLists, a \in SecondaryLists}
           \cup {<<p, a, b>> : p \in PrimaryLists, a \in SecondaryLists, b \in SecondaryLists}

\* fused = reciprocal_rank_fusion(results, k)
Fuse ==
    /\ fpc = "ready"
    /\ fused' = RRF(results, k)
    /\ fpc' = "fused"
    /\ UNCHANGED <<results, k, fusedSwapped>>
    /\ UNCHANGED <<repoVars, memVars, stepVars, chatVars>>
    /\ UNCHANGED <<tokenVars, taskVars, splitVars>>

\* a second call on fresh copies of the same lists, the two secondary lists exchanged
FuseSwapped ==
    /\ fpc = "fused"
    /\ Len(results) = 3
    /\ fusedSwapped' = RRF(<<results[1], results[3], results[2]>>, k)
    /\ fpc' = "both"
    /\ UNCHANGED <<results, k, fused>>
    /\ UNCHANGED <<repoVars, memVars, stepVars, chatVars>>
    /\ UNCHANGED <<tokenVars, taskVars, splitVars>>

(***************************************************************************)
(* create_access_token of core/security.py and of AuthService.  A dict is  *)
(* a function on its keys; a datetime and a timedelta count half seconds,  *)
(* so that a time can fall between two whole seconds; the token is what    *)
(* jwt.encode signs: the claims, with a datetime "exp" turned into whole   *)
(* seconds since the epoch.                                                *)
(***************************************************************************)
ACCESS_TOKEN_EXPIRE_MINUTES == 30

\* the values tried for the configured expiry (the tests configure 1 minute)
ExpireMinutes == {1, ACCESS_TOKEN_EXPIRE_MINUTES}

\* datetime.now(timezone.utc): on a whole second, and half a second later
Nows == {240, 241}

\* expires_delta: None, or a timedelta (zero, one and a half seconds, one minute)
ExpiresDeltas == {None, Some(0), Some(3), Some(120)}

\* timedelta(minutes=m)
TimedeltaMinutes(m) == m * 120

\* timegm(dt.utctimetuple()), what jwt.encode does to a datetime claim
Timegm(dt) == dt \div 2

EmptyDict == [key \in {} |-> 0]

\* the data of a call: nothing, a subject, and data that brings its own "exp"
TokenData ==
    {EmptyDict, [sub |-> "user1"], [exp |-> 7], [sub |-> "user1", exp |-> 7]}

\* d.update({key: value}) on a dict d
DictUpdate(d, key, value) ==
    [x \in DOMAIN d \cup {key} |-> IF x = key THEN value ELSE d[x]]

\* jwt.encode(claims, key, algorithm): the signed claims
JwtEncode(claims, is_datetime) ==
    [x \in DOMAIN claims |->
        IF x \in is_datetime THEN Timegm(claims[x]) ELSE claims[x]]

\* `if expires_delta:` is false for None and for a zero timedelta
Truthy(expires_delta) == expires_delta # None /\ expires_delta # Some(0)

\* create_access_token(data, expires_delta) with datetime.now() = now: the token,
\* and the caller's dict after the call
CreateAccessToken(data, expires_delta, now, expire_minutes) ==
    LET to_encode == data
        expire == IF Truthy(expires_delta)
                  THEN now + (CHOOSE delta \in expires_delta : TRUE)
                  ELSE now + TimedeltaMinutes(expire_minutes)
    IN [encoded_jwt |-> JwtEncode(DictUpdate(to_encode, "exp", expire), {"exp"}),
        data |-> data]

NoTokenCall ==
    [op |-> "none", data |-> EmptyDict, expires_delta |-> None, now |-> 0,
     expire_minutes |-> 0, encoded_jwt |-> EmptyDict, data_after |-> EmptyDict]

\* a call of security.create_access_token (expiry from settings) or of
\* AuthService.create_access_token (expiry from self.expire_minutes)
CreateToken ==
    /\ \E op \in {"security", "auth_service"}, data \in TokenData,
          expires_delta \in ExpiresDeltas, now \in Nows, expire_minutes \in ExpireMinutes :
           LET ret == CreateAccessToken(data, expires_delta, now, expire_minutes)
           IN tokenCall' = [op |-> op, data |-> data, expires_delta |-> expires_delta,
                            now |-> now, expire_minutes |-> expire_minutes,
                            encoded_jwt |-> ret.encoded_jwt, data_after |-> ret.data]
    /\ UNCHANGED <<fusionVars, repoVars, memVars, stepVars, chatVars>>
    /\ UNCHANGED <<taskVars, splitVars>>

(***************************************************************************)
(* Concurrent calls on one QdrantRepository: each call is a task that      *)
(* suspends at every await.  A backend call takes effect in the backend     *)
(* when it is served; the coroutine goes on, with what the call returned,   *)
(* in a later step.                                                         *)
(***************************************************************************)
MaxTasks == 2

Tasks == 1..MaxTasks

\* The arguments of the concurrent add_documents calls: no chunk or one chunk.
TaskBatches == {<<>>} \cup {<<c>> : c \in Chunks}

NewRepoTask ==
    [op |-> "none", pc |-> "new", documents |-> <<>>, index |-> NoIndex,
     failed |-> FALSE]

\* add_documents(documents) is called: `if not documents: return []`, else the
\* points are built and the upsert is sent
StartAdd(t) ==
    /\ repoTasks[t].pc = "new"
    /\ \E documents \in TaskBatches :
           repoTasks' = [repoTasks EXCEPT ![t] =
                            [@ EXCEPT !.op = "add_documents", !.documents = documents,
                                      !.pc = IF documents = <<>> THEN "done" ELSE "upsert"]]
    /\ UNCHANGED <<collection_exists, points, bm25_index, repoCall, memTasks, evicted>>
    /\ UNCHANGED <<fusionVars, memVars, stepVars, chatVars, tokenVars, splitVars>>

\* await self.client.upsert(...): the backend writes the points, or answers with a
\* status that is not COMPLETED and add_documents returns []
AddUpsert(t) ==
    /\ repoTasks[t].pc = "upsert"
    /\ \/ /\ points' = Upsert(points, repoTasks[t].documents, 1)
          /\ repoTasks' = [repoTasks EXCEPT ![t] = [@ EXCEPT !.pc = "scroll"]]
       \/ /\ points' = points
          /\ repoTasks' = [repoTasks EXCEPT ![t] =
                              [@ EXCEPT !.pc = "done", !.failed = TRUE]]
    /\ UNCHANGED <<collection_exists, bm25_index, repoCall, memTasks, evicted>>
    /\ UNCHANGED <<fusionVars, memVars, stepVars, chatVars, tokenVars, splitVars>>

\* _build_bm25_index: await self.client.scroll(...): the backend reads its points,
\* or the call raises; the index that is going to be assigned is a local value
BuildScroll(t) ==
    /\ repoTasks[t].pc = "scroll"
    /\ \E scroll_ok \in BOOLEAN :
           repoTasks' = [repoTasks EXCEPT ![t] =
                            [@ EXCEPT !.pc = "assign",
                                      !.index = BuildBm25Index(points, collection_exists,
                                                               scroll_ok),
                                      !.failed = ~scroll_ok]]
    /\ UNCHANGED <<collection_exists, points, bm25_index, repoCall, memTasks, evicted>>
    /\ UNCHANGED <<fusionVars, memVars, stepVars, chatVars, tokenVars, splitVars>>

\* _build_bm25_index: self.bm25_index = BM25Index(...); add_documents returns the ids
BuildAssign(t) ==
    /\ repoTasks[t].pc = "assign"
    /\ bm25_index' = repoTasks[t].index
    /\ repoTasks' = [repoTasks EXCEPT ![t] = [@ EXCEPT !.pc = "done"]]
    /\ UNCHANGED <<collection_exists, points, repoCall, memTasks, evicted>>
    /\ UNCHANGED <<fusionVars, memVars, stepVars, chatVars, tokenVars, splitVars>>

\* clear_collection() is called and the delete is sent
StartClear(t) ==
    /\ repoTasks[t].pc = "new"
    /\ repoTasks' = [repoTasks EXCEPT ![t] =
                        [@ EXCEPT !.op = "clear_collection", !.pc = "delete"]]
    /\ UNCHANGED <<collection_exists, points, bm25_index, repoCall, memTasks, evicted>>
    /\ UNCHANGED <<fusionVars, memVars, stepVars, chatVars, tokenVars, splitVars>>

\* await self.client.delete(...): the backend deletes every point, or the call
\* raises and clear_collection returns False
ClearDelete(t) ==
    /\ repoTasks[t].pc = "delete"
    /\ \/ /\ points' = NoPoints
          /\ repoTasks' = [repoTasks EXCEPT ![t] = [@ EXCEPT !.pc = "reset"]]
       \/ /\ points' = points
          /\ repoTasks' = [repoTasks EXCEPT ![t] =
                              [@ EXCEPT !.pc = "done", !.failed = TRUE]]
    /\ UNCHANGED <<collection_exists, bm25_index, repoCall, memTasks, evicted>>
    /\ UNCHANGED <<fusionVars, memVars, stepVars, chatVars, tokenVars, splitVars>>

\* self.bm25_index = BM25Index(documents=[]); return True
ClearReset(t) ==
    /\ repoTasks[t].pc = "reset"
    /\ bm25_index' = BM25Index(<<>>)
    /\ repoTasks' = [repoTasks EXCEPT ![t] = [@ EXCEPT !.pc = "done"]]
    /\ UNCHANGED <<collection_exists, points, repoCall, memTasks, evicted>>
    /\ UNCHANGED <<fusionVars, memVars, stepVars, chatVars, tokenVars, splitVars>>

(***************************************************************************)
(* Concurrent add_message_to_history calls of one user, without a chat      *)
(* history index and without a summarization adapter: each call is a task   *)
(* that suspends at every call of the key-value store.                      *)
(***************************************************************************)
TaskUser == <<"7">>

NewMemTask == [pc |-> "new", turn |-> ChatMessage("", ""), total_tokens |-> 0]

\* await redis_client.rpush(key, message.model_dump_json())
TaskPush(t) ==
    /\ memTasks[t].pc = "new"
    /\ \E turn \in Turns :
           /\ redis' = [redis EXCEPT ![GetUserMemoryKey(TaskUser)] =
                           Append(@, ModelDumpJson(turn))]
           /\ memTasks' = [memTasks EXCEPT ![t] = [@ EXCEPT !.pc = "read", !.turn = turn]]
    /\ UNCHANGED <<llm_adapter, chat_history_index, ltm, memCall, repoTasks, evicted>>
    /\ UNCHANGED <<fusionVars, repoVars, stepVars, chatVars, tokenVars, splitVars>>

\* _prune_and_summarize_history: history = await self.get_history(...);
\* total_tokens = sum of the tokens of the messages read
TaskRead(t) ==
    /\ memTasks[t].pc = "read"
    /\ LET history == GetHistoryOf(redis, LastPart(GetUserMemoryKey(TaskUser)))
       IN memTasks' = [memTasks EXCEPT ![t] =
                          [@ EXCEPT !.pc = "prune", !.total_tokens = TotalTokens(history)]]
    /\ UNCHANGED <<memVars, repoTasks, evicted>>
    /\ UNCHANGED <<fusionVars, repoVars, stepVars, chatVars, tokenVars, splitVars>>

\* one turn of `while total_tokens > MAX_HISTORY_TOKENS`: await redis_client.lpop;
\* an empty list ends the loop, else total_tokens -= the tokens of the removed message
TaskPrune(t) ==
    /\ memTasks[t].pc = "prune"
    /\ LET redis_key == GetUserMemoryKey(TaskUser)
       IN IF memTasks[t].total_tokens > MAX_HISTORY_TOKENS /\ redis[redis_key] # <<>>
          THEN LET removed_message == ModelValidateJson(Head(redis[redis_key]))
               IN /\ redis' = [redis EXCEPT ![redis_key] = Tail(@)]
                  /\ evicted' = Append(evicted, removed_message)
                  /\ memTasks' = [memTasks EXCEPT ![t] =
                                     [@ EXCEPT !.total_tokens =
                                         @ - Tokenizer(removed_message.content)]]
          ELSE /\ memTasks' = [memTasks EXCEPT ![t] = [@ EXCEPT !.pc = "done"]]
               /\ UNCHANGED <<redis, evicted>>
    /\ UNCHANGED <<llm_adapter, chat_history_index, ltm, memCall, repoTasks>>
    /\ UNCHANGED <<fusionVars, repoVars, stepVars, chatVars, tokenVars, splitVars>>

(***************************************************************************)
(* _split_long_message of the Telegram gateway.  A text is a sequence of    *)
(* characters: a letter, a space, a newline.                                *)
(***************************************************************************)
MaxText == 5

MaxChunk == 3

Newline == "\n"

Characters == {"a", Space, Newline}

Whitespace == {Space, Newline}

SplitTexts == UNION {[1..n -> Characters] : n \in 0..MaxText}

MaxLengths == 0..MaxChunk

\* text.split('\n\n'): cut at every pair of newlines, from the left
RECURSIVE SplitParagraphs(_)
SplitParagraphs(text) ==
    LET breaks == {i \in 1..(Len(text) - 1) : text[i] = Newline /\ text[i + 1] = Newline}
    IN IF breaks = {} THEN <<text>>
       ELSE LET first == CHOOSE i \in breaks : \A j \in breaks : i <= j
            IN <<SubSeq(text, 1, first - 1)>>
                   \o SplitParagraphs(SubSeq(text, first + 2, Len(text)))

\* chunk.strip(): the whitespace at both ends goes
RECURSIVE StripWhitespace(_)
StripWhitespace(chunk) ==
    IF chunk # <<>> /\ Head(chunk) \in Whitespace THEN StripWhitespace(Tail(chunk))
    ELSE IF chunk # <<>> /\ chunk[Len(chunk)] \in Whitespace
         THEN StripWhitespace(SubSeq(chunk, 1, Len(chunk) - 1))
         ELSE chunk

\* [paragraph[i:i + max_length] for i in range(0, len(paragraph), max_length)]
ForcedSplit(paragraph, max_length) ==
    LET pieces == (Len(paragraph) + max_length - 1) \div max_length
    IN [j \in 1..pieces |->
           SubSeq(paragraph, (j - 1) * max_length + 1, Min(j * max_length, Len(paragraph)))]

\* chunks.append(current_chunk.strip()) under `if current_chunk:`
AppendStripped(chunks, current_chunk) ==
    IF current_chunk # <<>> THEN Append(chunks, StripWhitespace(current_chunk)) ELSE chunks

\* the loop over the paragraphs and the append of the last chunk: the chunks before
\* the final filter, and whether range() raised on a step of 0
RECURSIVE PackParagraphs(_, _, _, _, _)
PackParagraphs(paragraphs, i, chunks, current_chunk, max_length) ==
    IF i > Len(paragraphs)
    THEN [chunks |-> AppendStripped(chunks, current_chunk), raised |-> FALSE]
    ELSE LET paragraph == paragraphs[i]
         IN IF Len(current_chunk) + Len(paragraph) + 2 <= max_length
            THEN PackParagraphs(paragraphs, i + 1, chunks,
                                current_chunk \o paragraph \o <<Newline, Newline>>,
                                max_length)
            ELSE IF Len(paragraph) > max_length
                 THEN IF max_length = 0
                      THEN [chunks |-> <<>>, raised |-> TRUE]
                      ELSE PackParagraphs(paragraphs, i + 1,
                                          AppendStripped(chunks, current_chunk)
                                              \o ForcedSplit(paragraph, max_length),
                                          <<>>, max_length)
                 ELSE PackParagraphs(paragraphs, i + 1,
                                     AppendStripped(chunks, current_chunk),
                                     paragraph \o <<Newline, Newline>>, max_length)

\* A split that returns the chunks without the final filter.
SplitLongMessageUnfiltered(text, max_length) ==
    IF Len(text) <= max_length THEN [chunks |-> <<text>>, raised |-> FALSE]
    ELSE PackParagraphs(SplitParagraphs(text), 1, <<>>, <<>>, max_length)

\* _split_long_message(text, max_length)
SplitLongMessage(text, max_length) ==
    IF Len(text) <= max_length THEN [chunks |-> <<text>>, raised |-> FALSE]
    ELSE LET packed == PackParagraphs(SplitParagraphs(text), 1, <<>>, <<>>, max_length)
         IN [packed EXCEPT !.chunks = SelectSeq(@, LAMBDA c : c # <<>>)]

NoSplitCall ==
    [pc |-> "ready", text |-> <<>>, max_length |-> 1, chunks |-> <<>>, raised |-> FALSE]

\* message_chunks = _split_long_message(text, max_length)
Split ==
    /\ splitCall.pc = "ready"
    /\ LET ret == SplitLongMessage(splitCall.text, splitCall.max_length)
       IN splitCall' = [splitCall EXCEPT !.pc = "split", !.chunks = ret.chunks,
                                         !.raised = ret.raised]
    /\ UNCHANGED <<fusionVars, repoVars, memVars, stepVars, chatVars>>
    /\ UNCHANGED <<tokenVars, taskVars>>

(***************************************************************************)
(* Initial states and specifications: one per component, the others idle.   *)
(***************************************************************************)
IdleToken == tokenCall = NoTokenCall

IdleTasks ==
    /\ repoTasks = [t \in Tasks |-> NewRepoTask]
    /\ memTasks = [t \in Tasks |-> NewMemTask]
    /\ evicted = <<>>

IdleSplit == splitCall = NoSplitCall

IdleFusion ==
    /\ results = <<>>
    /\ k = DEFAULT_K
    /\ fused = <<>>
    /\ fusedSwapped = <<>>
    /\ fpc = "ready"

IdleRepo ==
    /\ collection_exists = FALSE
    /\ points = NoPoints
    /\ bm25_index = NoIndex
    /\ repoCall = NoCall

IdleMem ==
    /\ llm_adapter = FALSE
    /\ chat_history_index = FALSE
    /\ redis = [key \in Keys |-> <<>>]
    /\ ltm = {}
    /\ memCall = NoMemCall

IdleSteps ==
    /\ rag_query = RAGQuery(<<"q0">>)
    /\ num_queries = 3
    /\ response = [kind |-> "raises", content |-> <<>>]
    /\ stepCall = NoStepCall

IdleChat ==
    /\ kb_rag_engine = FALSE
    /\ chat = [r \in Requests |-> NewRequest]

InitFusion ==
    /\ results \in FusionInputs
    /\ k \in {1, DEFAULT_K}
    /\ fused = <<>>
    /\ fusedSwapped = <<>>
    /\ fpc = "ready"
    /\ IdleRepo
    /\ IdleMem
    /\ IdleSteps
    /\ IdleChat
    /\ IdleToken
    /\ IdleTasks
    /\ IdleSplit

\* QdrantRepository.__init__: no index yet; the backend may already have the collection
InitRepo ==
    /\ collection_exists \in BOOLEAN
    /\ points = NoPoints
    /\ bm25_index = NoIndex
    /\ repoCall = NoCall
    /\ IdleFusion
    /\ IdleMem
    /\ IdleSteps
    /\ IdleChat
    /\ IdleToken
    /\ IdleTasks
    /\ IdleSplit

\* MemoryService.__init__ without an LLM adapter and without a chat history index,
\* on an empty store
InitMem ==
    /\ llm_adapter = FALSE
    /\ chat_history_index = FALSE
    /\ redis = [key \in Keys |-> <<>>]
    /\ ltm = {}
    /\ memCall = NoMemCall
    /\ IdleFusion
    /\ IdleRepo
    /\ IdleSteps
    /\ IdleChat
    /\ IdleToken
    /\ IdleTasks
    /\ IdleSplit

\* MemoryService.__init__ with a chat history index, with or without an LLM adapter
InitArchive ==
    /\ llm_adapter \in BOOLEAN
    /\ chat_history_index = TRUE
    /\ redis = [key \in Keys |-> <<>>]
    /\ ltm = {}
    /\ memCall = NoMemCall
    /\ IdleFusion
    /\ IdleRepo
    /\ IdleSteps
    /\ IdleChat
    /\ IdleToken
    /\ IdleTasks
    /\ IdleSplit

\* A new RAGQuery and a QueryExpansionStep(llm_client, num_queries_to_generate)
InitExpansion ==
    /\ rag_query \in {RAGQuery(original_query) : original_query \in OriginalQueries}
    /\ num_queries \in NumQueries
    /\ response \in Responses
    /\ stepCall = NoStepCall
    /\ IdleFusion
    /\ IdleRepo
    /\ IdleMem
    /\ IdleChat
    /\ IdleToken
    /\ IdleTasks
    /\ IdleSplit

\* A new RAGQuery, a SelfQueryStep and a CrossEncoderReranker
InitSteps ==
    /\ rag_query \in {RAGQuery(original_query) : original_query \in OriginalQueries}
    /\ num_queries = 3
    /\ response = [kind |-> "raises", content |-> <<>>]
    /\ stepCall = NoStepCall
    /\ IdleFusion
    /\ IdleRepo
    /\ IdleMem
    /\ IdleChat
    /\ IdleToken
    /\ IdleTasks
    /\ IdleSplit

\* The services as initialize_ai_services hands them over: an LLM and a memory
\* service without summarization, with or without a knowledge-base engine and a
\* chat history index
InitChat ==
    /\ kb_rag_engine \in BOOLEAN
    /\ chat = [r \in Requests |-> NewRequest]
    /\ llm_adapter = FALSE
    /\ chat_history_index \in BOOLEAN
    /\ redis = [key \in Keys |-> <<>>]
    /\ ltm = {}
    /\ memCall = NoMemCall
    /\ IdleFusion
    /\ IdleRepo
    /\ IdleSteps
    /\ IdleToken
    /\ IdleTasks
    /\ IdleSplit

NextFusion == Fuse \/ FuseSwapped

NextRepo == Initialize \/ AddDocuments \/ Search \/ ClearCollection

NextMem == AddMessageToHistory(Users, Turns) \/ GetHistory(Users) \/ ClearHistory(Users)

NextArchive ==
    \/ AddMessageToHistory(Users, ArchiveTurns)
    \/ GetHistory(Users)
    \/ ClearHistory(Users)

NextExpansion == Expand

NextSelfQuery == SelfQuery

NextRerank == RerankCall

SpecExpansion == InitExpansion /\ [][NextExpansion]_vars

SpecSelfQuery == InitSteps /\ [][NextSelfQuery]_vars

SpecRerank == InitSteps /\ [][NextRerank]_vars

NextChat ==
    \E r \in Requests :
        \/ StartTurn(r)
        \/ KbRetrieval(r)
        \/ ChatRetrieval(r)
        \/ HistoryAndPrompt(r)
        \/ Generate(r)
        \/ AddUserTurn(r)
        \/ AddAssistantTurn(r)

SpecChat == InitChat /\ [][NextChat]_vars

\* The event loop resumes every coroutine whose awaited call has returned or raised.
SpecChatFair == InitChat /\ [][NextChat]_vars /\ WF_vars(NextChat)

InitToken ==
    /\ tokenCall = NoTokenCall
    /\ IdleFusion
    /\ IdleRepo
    /\ IdleMem
    /\ IdleSteps
    /\ IdleChat
    /\ IdleTasks
    /\ IdleSplit

NextToken == CreateToken

SpecToken == InitToken /\ [][NextToken]_vars

\* A repository that was initialized on an empty collection; no call is running.
InitRepoTasks ==
    /\ collection_exists = TRUE
    /\ points = NoPoints
    /\ bm25_index = BM25Index(<<>>)
    /\ repoCall = NoCall
    /\ IdleTasks
    /\ IdleFusion
    /\ IdleMem
    /\ IdleSteps
    /\ IdleChat
    /\ IdleToken
    /\ IdleSplit

NextRepoTasks ==
    \E t \in Tasks :
        \/ StartAdd(t)
        \/ AddUpsert(t)
        \/ BuildScroll(t)
        \/ BuildAssign(t)
        \/ StartClear(t)
        \/ ClearDelete(t)
        \/ ClearReset(t)

SpecRepoTasks == InitRepoTasks /\ [][NextRepoTasks]_vars

\* A memory service on an empty store; no call is running.
InitMemTasks ==
    /\ IdleMem
    /\ IdleTasks
    /\ IdleFusion
    /\ IdleRepo
    /\ IdleSteps
    /\ IdleChat
    /\ IdleToken
    /\ IdleSplit

NextMemTasks ==
    \E t \in Tasks :
        \/ TaskPush(t)
        \/ TaskRead(t)
        \/ TaskPrune(t)

SpecMemTasks == InitMemTasks /\ [][NextMemTasks]_vars

\* MemoryService.__init__ with an LLM adapter, without a chat history index
InitSummary ==
    /\ llm_adapter = TRUE
    /\ chat_history_index = FALSE
    /\ redis = [key \in Keys |-> <<>>]
    /\ ltm = {}
    /\ memCall = NoMemCall
    /\ IdleFusion
    /\ IdleRepo
    /\ IdleSteps
    /\ IdleChat
    /\ IdleToken
    /\ IdleTasks
    /\ IdleSplit

NextSummary ==
    \/ AddMessageToHistory(Users, SummaryTurns)
    \/ GetHistory(Users)
    \/ ClearHistory(Users)

SpecSummary == InitSummary /\ [][NextSummary]_vars

InitSplit ==
    /\ splitCall \in {[NoSplitCall EXCEPT !.text = text, !.max_length = max_length] :
                          text \in SplitTexts, max_length \in MaxLengths}
    /\ IdleFusion
    /\ IdleRepo
    /\ IdleMem
    /\ IdleSteps
    /\ IdleChat
    /\ IdleToken
    /\ IdleTasks

NextSplit == Split

SpecSplit == InitSplit /\ [][NextSplit]_vars

SpecFusion == InitFusion /\ [][NextFusion]_vars

SpecRepo == InitRepo /\ [][NextRepo]_vars

SpecMem == InitMem /\ [][NextMem]_vars

SpecArchive == InitArchive /\ [][NextArchive]_vars

(***************************************************************************)
(* Properties of reciprocal_rank_fusion.                                    *)
(***************************************************************************)
IdsOf(list) == {list[i].id : i \in DOMAIN list}

IdSeqOf(list) == [i \in DOMAIN list |-> list[i].id]

AllIds(res) == UNION {IdsOf(res[l]) : l \in DOMAIN res}

ListsHolding(res, id) == {l \in DOMAIN res : id \in IdsOf(res[l])}

PositionOf(list, id) == CHOOSE i \in DOMAIN list : list[i].id = id

DocOf(list, id) == list[PositionOf(list, id)]

\* The sum over every list holding `id` of 1/(k + r + 1), r its 0-based position there.
RECURSIVE SumOfReciprocalRanks(_, _, _, _)
SumOfReciprocalRanks(res, id, l, kk) ==
    IF l > Len(res) THEN 0
    ELSE (IF id \in IdsOf(res[l])
          THEN Scale(kk) \div (kk + (PositionOf(res[l], id) - 1) + 1)
          ELSE 0) + SumOfReciprocalRanks(res, id, l + 1, kk)

NonIncreasingByFusedScore(list) ==
    \A i, j \in DOMAIN list :
        i < j => \A x \in list[i].rrf_score : \A y \in list[j].rrf_score : x >= y

\* C1: the fusion returns exactly one candidate per distinct id of any input list
\* (ids of secondary lists only included), and the fused score of each is the sum,
\* over the lists holding it, of 1/(k + r + 1), r its 0-based position in that list.
C1_OneCandidatePerIdWithSummedScore ==
    fpc # "ready" =>
        /\ IdsOf(fused) = AllIds(results)
        /\ Len(fused) = Cardinality(AllIds(results))
        /\ \A i \in DOMAIN fused :
              fused[i].rrf_score = Some(SumOfReciprocalRanks(results, fused[i].id, 1, k))

C1_Witness ==
    /\ fpc = "fused"
    /\ k = DEFAULT_K
    /\ Len(results) = 3
    /\ \E id \in IdsOf(fused) : 1 \notin ListsHolding(results, id)
    /\ \E id \in IdsOf(fused) : Cardinality(ListsHolding(results, id)) >= 2

\* C2: every candidate of the primary list comes back with the similarity score it has
\* in the primary list, whatever the secondary lists hold; only bm25_score and rrf_score
\* are written.
C2_PrimaryScorePreserved ==
    (fpc # "ready" /\ results # <<>>) =>
        \A p \in DOMAIN results[1] :
            /\ Cardinality({j \in DOMAIN fused : fused[j].id = results[1][p].id}) = 1
            /\ \A j \in DOMAIN fused :
                  fused[j].id = results[1][p].id =>
                      [fused[j] EXCEPT !.bm25_score = None, !.rrf_score = None]
                          = [results[1][p] EXCEPT !.bm25_score = None, !.rrf_score = None]

C2_Witness ==
    /\ fpc = "fused"
    /\ Len(results) >= 2
    /\ \E id \in IdsOf(results[1]) : \E l \in 2..Len(results) :
          /\ id \in IdsOf(results[l])
          /\ DocOf(results[l], id).score # DocOf(results[1], id).score
          /\ DocOf(fused, id).score = DocOf(results[1], id).score
          /\ DocOf(fused, id).bm25_score # None

C4_CommutesInSecondaryOrder ==
    fpc = "both" =>
        /\ IdSeqOf(fused) = IdSeqOf(fusedSwapped)
        /\ \A i \in DOMAIN fused : fused[i].rrf_score = fusedSwapped[i].rrf_score

\* C4, amended: exchanging the two secondary lists keeps the set of candidate ids and
\* the fused score of every id, and both results are in non-increasing order of fused
\* score; the two sequences differ at most in the order of ids whose fused scores are
\* equal.
C4_CommutesUpToTies ==
    fpc = "both" =>
        /\ IdsOf(fused) = IdsOf(fusedSwapped)
        /\ Len(fused) = Len(fusedSwapped)
        /\ \A id \in IdsOf(fused) :
              DocOf(fused, id).rrf_score = DocOf(fusedSwapped, id).rrf_score
        /\ NonIncreasingByFusedScore(fused)
        /\ NonIncreasingByFusedScore(fusedSwapped)
        /\ \A i \in DOMAIN fused :
              fused[i].id # fusedSwapped[i].id =>
                  fused[i].rrf_score = fusedSwapped[i].rrf_score

C4_Witness ==
    /\ fpc = "both"
    /\ results[2] # results[3]
    /\ IdSeqOf(fused) # IdSeqOf(fusedSwapped)
    /\ \E id \in IdsOf(fused) : Cardinality(ListsHolding(results, id)) = 3

\* C5: a candidate at rank 0 of both the vector list and the lexical list is returned
\* first, with a fused score strictly greater than the one it gets from either list
\* alone.
C5_AgreeingTopRankedFirst ==
    (/\ fpc # "ready"
     /\ Len(results) = 2
     /\ results[1] # <<>>
     /\ results[2] # <<>>
     /\ results[1][1].id = results[2][1].id) =>
        LET id == results[1][1].id
            vectorOnly == RRF(<<results[1], <<>>>>, k)
            lexicalOnly == RRF(<<<<>>, results[2]>>, k)
        IN /\ fused[1].id = id
           /\ \A both \in fused[1].rrf_score :
                 /\ \A alone \in DocOf(vectorOnly, id).rrf_score : both > alone
                 /\ \A alone \in DocOf(lexicalOnly, id).rrf_score : both > alone
           /\ fused[1].rrf_score # None

C5_Witness ==
    /\ fpc = "fused"
    /\ k = DEFAULT_K
    /\ Len(results) = 2
    /\ Len(results[1]) = 2
    /\ Len(results[2]) = 2
    /\ results[1][1].id = results[2][1].id
    /\ results[2][1].bm25_score # None
    /\ fused[1].id = results[1][1].id

(***************************************************************************)
(* Properties of QdrantRepository.                                          *)
(***************************************************************************)
MatchingPoints(filters) ==
    {id \in DOMAIN points : filters = None \/ points[id].author \in filters}

\* C6: search asks the dense branch and the lexical branch for 2 * top_k candidates
\* each and returns the first top_k elements of the fusion of [dense, lexical]: at most
\* top_k candidates, in non-increasing order of fused score.
C6_SearchFusesTwoPoolsOfTwiceTopK ==
    (repoCall.op = "search" /\ ~repoCall.raised) =>
        LET top_k == repoCall.top_k
            fusion == RRF(<<repoCall.vector_results, repoCall.bm25_results>>, DEFAULT_K)
        IN /\ repoCall.vector_limit = 2 * top_k
           /\ repoCall.bm25_limit = 2 * top_k
           /\ Len(repoCall.vector_results)
                  = Min(2 * top_k, Cardinality(MatchingPoints(repoCall.filters)))
           /\ Len(repoCall.bm25_results) = Min(2 * top_k, Len(bm25_index.documents))
           /\ Len(repoCall.ret) = Min(top_k, Len(fusion))
           /\ \A i \in DOMAIN repoCall.ret : repoCall.ret[i] = fusion[i]
           /\ Len(repoCall.ret) <= top_k
           /\ NonIncreasingByFusedScore(repoCall.ret)
           /\ \A i \in DOMAIN repoCall.ret : repoCall.ret[i].rrf_score # None

C6_Witness ==
    /\ repoCall.op = "search"
    /\ ~repoCall.raised
    /\ repoCall.top_k = 1
    /\ Cardinality(DOMAIN points) = 3
    /\ Len(repoCall.vector_results) = 2
    /\ Len(repoCall.bm25_results) = 2
    /\ IdsOf(repoCall.vector_results) # IdsOf(repoCall.bm25_results)
    /\ Len(repoCall.ret) = 1


(***************************************************************************)
(* The conversational memory: claims C7 to C10.                            *)
(***************************************************************************)
\* The short-term log of a user, as get_history reads it.
Hist(user_id) == GetHistoryOf(redis, user_id)

IsSuffix(s, t) == Len(s) <= Len(t) /\ s = SubSeq(t, Len(t) - Len(s) + 1, Len(t))

\* The turn the last call of add_message_to_history was given.
TurnOfCall(call) == ChatMessage(call.role, call.content)

\* C7: after add_message_to_history returns with no summarization adapter, the
\* caller's short-term log holds at most MAX_HISTORY_TOKENS tokens, what was removed
\* is the oldest turns, and removing one turn fewer would have left the log over
\* the budget.
C7_WithinBudgetOldestFirstMinimal ==
    (memCall.op = "add" /\ ~llm_adapter) =>
        LET log == Hist(memCall.user_id)
            all == Append(memCall.before, TurnOfCall(memCall))
            removed == Len(all) - Len(log)
        IN /\ TotalTokens(log) <= MAX_HISTORY_TOKENS
           /\ IsSuffix(log, all)
           /\ removed > 0 => TotalTokens(SubSeq(all, removed, Len(all))) > MAX_HISTORY_TOKENS

\* One step of the memory on the log of `user_id`: an add_message_to_history for
\* that user leaves a suffix of the log with the new turn appended, a clear_history
\* for that user that went through leaves it empty, any other step leaves it as
\* it was.
StepKeepsSuffix(user_id) ==
    LET old == GetHistoryOf(redis, user_id)
        new == GetHistoryOf(redis', user_id)
    IN IF memCall'.op = "add" /\ memCall'.user_id = user_id
       THEN IsSuffix(new, Append(old, TurnOfCall(memCall')))
       ELSE IF memCall'.op = "clear_history" /\ memCall'.user_id = user_id
                                              /\ memCall'.client_ret
            THEN new = <<>>
            ELSE new = old

\* C8: with no summarization adapter, get_history returns the user's log as stored,
\* and every step keeps each user's log a suffix, in insertion order, of the turns
\* added for that user since the last clear.
C8_HistoryIsSuffixInInsertionOrder ==
    /\ [](memCall.op = "get_history" => memCall.ret = Hist(memCall.user_id))
    /\ [][~llm_adapter => \A user_id \in Users : StepKeepsSuffix(user_id)]_vars

\* get_history has returned, oldest turn first, what is left of a log after the
\* newest turn pushed the older ones over the budget.
C8_Witness ==
    /\ ~llm_adapter
    /\ memCall.op = "get_history"
    /\ memCall.ret = <<ChatMessage("assistant", "essay"), ChatMessage("user", "hi"),
                       ChatMessage("user", "hi")>>

\* The nodes the long-term archive holds for a user.
ArchivedFor(user_id) == {doc \in ltm : doc.user_id = user_id}

\* C9: after clear_history succeeds for a user, that user's short-term log is empty
\* and the long-term archive holds nothing of that user.
C9_ClearEmptiesBothLayers ==
    (memCall.op = "clear_history" /\ memCall.client_ret) =>
        /\ Hist(memCall.user_id) = <<>>
        /\ ArchivedFor(memCall.user_id) = {}

\* The node add_message_to_history builds for the turn of a call.
DocOfCall(call) == Document(call.role, call.content, call.user_id)

\* A step of add_message_to_history, with its eviction and summarization, removes
\* and changes no node of the archive.
AddKeepsArchive ==
    memCall'.op = "add" =>
        /\ ltm \subseteq ltm'
        /\ ltm' \subseteq ltm \cup {DocOfCall(memCall')}

SnapshotIds == {bm25_index.documents[i].id : i \in DOMAIN bm25_index.documents}

\* The last repository call completed and is one that builds or resets the snapshot.
SnapshotCallCompleted ==
    \/ repoCall.op = "initialize" /\ ~repoCall.raised
    \/ repoCall.op = "add_documents" /\ ~repoCall.raised /\ repoCall.ret # <<>>
    \/ repoCall.op = "clear_collection" /\ repoCall.ret = TRUE

\* C11: after a completed initialize(), an add_documents that wrote chunks and a
\* clear_collection that returned True, the chunk ids of the lexical snapshot are
\* the chunk ids of the vector backend.
C11_SnapshotMatchesStore ==
    SnapshotCallCompleted => SnapshotIds = DOMAIN points

\* The index of the last chunk of a batch that carries the id of chunk i.
LastWithId(documents, i) ==
    CHOOSE j \in DOMAIN documents :
        /\ documents[j].id = documents[i].id
        /\ \A l \in DOMAIN documents : documents[l].id = documents[i].id => l <= j

\* C12: add_documents returns the id of every given chunk when the upsert completes,
\* and each of these ids then maps to one stored point that holds the content given
\* for it (the last one of the batch); it returns [] when the upsert does not
\* complete; for an empty input it returns [] and writes nothing and rebuilds
\* nothing.
C12_AddReturnsWrittenIds ==
    /\ []((repoCall.op = "add_documents" /\ ~repoCall.raised) =>
            LET documents == repoCall.documents
            IN \/ /\ repoCall.ret = [i \in DOMAIN documents |-> documents[i].id]
                  /\ \A i \in DOMAIN documents :
                         /\ documents[i].id \in DOMAIN points
                         /\ points[documents[i].id] = documents[LastWithId(documents, i)]
               \/ /\ documents # <<>>
                  /\ repoCall.ret = <<>>)
    /\ [][(repoCall'.op = "add_documents" /\ repoCall'.documents = <<>>) =>
              /\ repoCall'.ret = <<>>
              /\ ~repoCall'.raised
              /\ points' = points
              /\ bm25_index' = bm25_index]_vars

\* add_documents has completed on a batch that gives the id c0 twice, and the stored
\* point holds the content given last.
C12_Witness ==
    /\ repoCall.op = "add_documents"
    /\ repoCall.documents = <<EmbeddedChunk("c0", "space"), EmbeddedChunk("c0", "cats")>>
    /\ repoCall.ret = <<"c0", "c0">>
    /\ points["c0"].content = "cats"
    /\ Cardinality(DOMAIN points) = 2

\* C13: clear_collection never raises; when it returns True the store holds no point
\* and the lexical snapshot is empty, when it returns False the store and the
\* snapshot are as they were.
C13_ClearNeverRaises ==
    /\ [](repoCall.op = "clear_collection" =>
            /\ ~repoCall.raised
            /\ repoCall.ret \in BOOLEAN
            /\ repoCall.ret => (DOMAIN points = {} /\ bm25_index = BM25Index(<<>>)))
    /\ [][(repoCall'.op = "clear_collection" /\ repoCall'.ret = FALSE) =>
              (points' = points /\ bm25_index' = bm25_index)]_vars
    /\ [][(repoCall'.op = "clear_collection" /\ points' # points) =>
              repoCall'.ret = TRUE]_vars

\* clear_collection has returned True: the store holds no point, the snapshot is
\* built and empty.
C13_Witness ==
    /\ repoCall.op = "clear_collection"
    /\ repoCall.ret = TRUE
    /\ DOMAIN points = {}
    /\ bm25_index.built
    /\ bm25_index.documents = <<>>

\* C14: initialize() removes no stored chunk, and a repeated initialize() leaves the
\* stored chunks and the lexical snapshot as the one before left them.
C14_InitializeIdempotent ==
    /\ [][repoCall'.op = "initialize" => points' = points]_vars
    /\ [][(repoCall.op = "initialize" /\ ~repoCall.raised
             /\ repoCall'.op = "initialize" /\ ~repoCall'.raised) =>
              bm25_index' = bm25_index]_vars


(***************************************************************************)
(* The pipeline steps: claims C16 to C20.                                  *)
(***************************************************************************)
\* The generation call of the last expansion failed or gave no usable output.
GenerationFailed == stepCall.outcome \in {"raises", "no_choices", "no_content"}

\* C16: QueryExpansionStep.transform does not raise and leaves exactly [original] as
\* the variant list when the configured count is at most 1, and then without a
\* generation call, and when the generation call fails or answers without content.
C16_DegenerateExpansionIsOriginal ==
    stepCall.op = "expand" =>
        /\ ~stepCall.raised
        /\ num_queries <= 1 =>
               /\ stepCall.llm_calls = 0
               /\ rag_query.expanded_queries = <<rag_query.original_query>>
        /\ (num_queries > 1 /\ GenerationFailed) =>
               /\ stepCall.llm_calls = 1
               /\ rag_query.expanded_queries = <<rag_query.original_query>>

\* An enabled expansion whose generation call answered with content None.
C16_Witness ==
    /\ stepCall.op = "expand"
    /\ num_queries = 3
    /\ stepCall.outcome = "no_content"
    /\ stepCall.llm_calls = 1
    /\ stepCall.ret = <<rag_query.original_query>>

\* The first line of the generated text that reads `variant` once stripped.
FirstLine(variant) ==
    CHOOSE i \in DOMAIN response.content :
        /\ Strip(response.content[i]) = variant
        /\ \A j \in DOMAIN response.content : Strip(response.content[j]) = variant => i <= j

\* C17: the list of queries used for search is never empty; after transform its first
\* element is the original query, no query occurs twice, and after a successful
\* generation the other elements are the stripped non-blank lines of the generated
\* text, in the order of their first occurrence.
C17_QueriesNonEmptyDedupedInOrder ==
    LET queries == GetQueriesForSearch(rag_query)
    IN /\ queries # <<>>
       /\ stepCall.op = "expand" =>
              /\ queries = rag_query.expanded_queries
              /\ queries[1] = rag_query.original_query
              /\ \A i, j \in DOMAIN queries : queries[i] = queries[j] => i = j
              /\ (num_queries > 1 /\ stepCall.outcome = "text") =>
                     /\ \A i \in 2..Len(queries) :
                            \E l \in DOMAIN response.content :
                                Strip(response.content[l]) = queries[i]
                     /\ \A l \in DOMAIN response.content :
                            Strip(response.content[l]) # <<>> =>
                                \E i \in DOMAIN queries : queries[i] = Strip(response.content[l])
                     /\ \A i, j \in 2..Len(queries) :
                            i < j => FirstLine(queries[i]) < FirstLine(queries[j])

\* The generated text gives one phrasing twice, around another one: three queries are
\* left, in the order of first occurrence.
C17_Witness ==
    /\ stepCall.op = "expand"
    /\ num_queries = 3
    /\ rag_query.original_query = <<"q0">>
    /\ response = [kind |-> "text",
                   content |-> <<<<"q2">>, <<Space, "q1", Space>>, <<"q2">>>>]
    /\ rag_query.expanded_queries = <<<<"q0">>, <<"q2">>, <<"q1">>>>

\* C18: for a target count above 1, the transform leaves at most that many phrasings
\* besides the original query.
C18_AtMostNAlternatives ==
    (stepCall.op = "expand" /\ num_queries > 1) =>
        Len(rag_query.expanded_queries) - 1 <= num_queries

\* C19: SelfQueryStep.transform does not raise; after it the filters are none when
\* the extraction failed or yielded no field, and they are a non-empty mapping only
\* when at least one field was extracted.
C19_FiltersNoneUnlessExtracted ==
    stepCall.op = "self_query" =>
        /\ ~stepCall.raised
        /\ (stepCall.outcome = "raises" \/ DOMAIN stepCall.extracted = {}) =>
               rag_query.filters = None
        /\ rag_query.filters # None =>
               /\ DOMAIN stepCall.extracted # {}
               /\ rag_query.filters = Some(stepCall.extracted)

\* The position of the candidate of id `id` in the list handed to rerank.
InputPosition(id) ==
    CHOOSE i \in DOMAIN stepCall.documents : stepCall.documents[i].id = id

\* C20: on a successful scoring call, rerank scores every (original query, content)
\* pair in one call and returns the min(K, n) best-scored candidates in
\* non-increasing order of score, K being 3 by default; each carries its score in
\* rerank_score, its other fields being those of the input.
C20_RerankReturnsTopKByScore ==
    (stepCall.op = "rerank" /\ stepCall.outcome = "scores") =>
        LET documents == stepCall.documents
            scores == stepCall.scores
            ret == stepCall.ret
            K == IF stepCall.kwargs = None THEN 3 ELSE TopKOf(stepCall.kwargs)
            returned == {ret[i].id : i \in DOMAIN ret}
        IN /\ stepCall.predict_calls = 1
           /\ stepCall.pairs = [i \in DOMAIN documents |->
                                   <<stepCall.entry.original_query, documents[i].content>>]
           /\ Len(ret) = Min(K, Len(documents))
           /\ \A i, j \in DOMAIN ret : i # j => ret[i].id # ret[j].id
           /\ \A i \in DOMAIN ret :
                  /\ \E j \in DOMAIN documents : documents[j].id = ret[i].id
                  /\ ret[i] = [documents[InputPosition(ret[i].id)] EXCEPT
                                  !.rerank_score = Some(scores[InputPosition(ret[i].id)])]
           /\ \A i \in DOMAIN ret : \A j \in DOMAIN ret :
                  i < j => scores[InputPosition(ret[i].id)] >= scores[InputPosition(ret[j].id)]
           /\ \A i \in DOMAIN ret : \A j \in DOMAIN documents :
                  documents[j].id \notin returned =>
                      scores[InputPosition(ret[i].id)] >= scores[j]

\* rerank was called without top_k on four candidates of which the first scores
\* lowest: three are returned and the first of the input is not among them.
C20_Witness ==
    /\ stepCall.op = "rerank"
    /\ stepCall.outcome = "scores"
    /\ stepCall.kwargs = None
    /\ Len(stepCall.documents) = 4
    /\ stepCall.scores = <<1, 2, 2, 2>>
    /\ Len(stepCall.ret) = 3
    /\ \A i \in DOMAIN stepCall.ret : stepCall.ret[i].id # stepCall.documents[1].id
    /\ \A i \in DOMAIN stepCall.ret : stepCall.ret[i].rerank_score = Some(2)
    /\ \A i \in DOMAIN stepCall.ret : stepCall.ret[i].score # 2


(***************************************************************************)
(* The chat turn: claim C15.                                               *)
(***************************************************************************)
\* The request has built its prompt: both retrieval stages are behind it.
PromptBuilt(r) == chat[r].pc \in {"generate", "add_user", "add_assistant", "done"}

\* C15: the unfiltered search runs only when the filtered one returned nothing: when
\* the search filtered by user id returned a hit, the unfiltered knowledge-base
\* search was not invoked and its chunks are not in the context handed on; when it
\* returned no hit, the context is what the unfiltered search returned.
C15_UnfilteredOnlyAfterEmptyFiltered ==
    \A r \in Requests :
        (PromptBuilt(r) /\ chat[r].chat_calls > 0) =>
            IF chat[r].chat_history_chunks # {}
            THEN /\ chat[r].kb_calls = 0
                 /\ chat[r].messages_for_llm.context = <<>>
            ELSE chat[r].messages_for_llm.context = chat[r].kb_context_chunks


(***************************************************************************)
(* The reranker's degraded paths: claims C21 and C22.                      *)
(***************************************************************************)
\* C21: when predict raises, rerank does not raise and returns the first K of the
\* candidates it was given, in the order given, none of them with a relevance score.
C21_FailedScoringReturnsFirstK ==
    (stepCall.op = "rerank" /\ stepCall.outcome = "raises") =>
        LET documents == stepCall.documents
            K == IF stepCall.kwargs = None THEN 3 ELSE TopKOf(stepCall.kwargs)
        IN /\ ~stepCall.raised
           /\ stepCall.predict_calls = 1
           /\ Len(stepCall.ret) = Min(K, Len(documents))
           /\ \A i \in DOMAIN stepCall.ret :
                  /\ stepCall.ret[i] = documents[i]
                  /\ stepCall.ret[i].rerank_score = None

\* predict raised on four candidates and a top_k of 2: the first two come back.
C21_Witness ==
    /\ stepCall.op = "rerank"
    /\ stepCall.outcome = "raises"
    /\ Len(stepCall.documents) = 4
    /\ stepCall.kwargs = Some(2)
    /\ Len(stepCall.ret) = 2
    /\ stepCall.ret[1].id = stepCall.documents[1].id
    /\ stepCall.ret[2].id = stepCall.documents[2].id

\* C22: rerank of an empty candidate list returns the empty list and does not call
\* predict.
C22_EmptyInputSkipsScoring ==
    (stepCall.op = "rerank" /\ stepCall.documents = <<>>) =>
        /\ ~stepCall.raised
        /\ stepCall.ret = <<>>
        /\ stepCall.predict_calls = 0
        /\ stepCall.pairs = <<>>

\* rerank has returned on an empty list with a top_k of 2.
C22_Witness ==
    /\ stepCall.op = "rerank"
    /\ stepCall.documents = <<>>
    /\ stepCall.kwargs = Some(2)
    /\ stepCall.ret = <<>>
    /\ stepCall.predict_calls = 0


(***************************************************************************)
(* Failed retrieval stages of a chat turn: claim C23.                      *)
(***************************************************************************)
\* One of the two retrieval stages of the request was invoked and raised.
RetrievalFailed(r) == chat[r].kb_failed \/ chat[r].chat_failed

\* A failed stage is behind the request and has left it with no chunks; the only
\* exception that leaves such a turn is the generation's, after the prompt was built
\* with the empty context of the failed stage.
RetrievalFailureContained ==
    \A r \in Requests :
        /\ chat[r].kb_failed =>
               /\ chat[r].kb_context_chunks = <<>>
               /\ chat[r].pc # "kb"
               /\ chat[r].prompted => chat[r].messages_for_llm.context = <<>>
        /\ chat[r].chat_failed =>
               /\ chat[r].chat_history_chunks = {}
               /\ chat[r].pc \notin {"kb", "chat"}
        /\ (RetrievalFailed(r) /\ chat[r].raised) => chat[r].prompted

ExpectedExp(call) ==
    Timegm(call.now + (IF call.expires_delta # None
                       THEN CHOOSE delta \in call.expires_delta : TRUE
                       ELSE TimedeltaMinutes(call.expire_minutes)))

\* C24: the token's payload holds every entry of data and an exp claim equal to the
\* current time plus expires_delta when one is given, plus the configured minutes
\* otherwise; the data passed in is as it was.
C24_PayloadIsDataPlusExpiry ==
    tokenCall.op # "none" =>
        /\ \A key \in DOMAIN tokenCall.data :
               /\ key \in DOMAIN tokenCall.encoded_jwt
               /\ tokenCall.encoded_jwt[key] = tokenCall.data[key]
        /\ "exp" \in DOMAIN tokenCall.encoded_jwt
        /\ tokenCall.encoded_jwt["exp"] = ExpectedExp(tokenCall)
        /\ tokenCall.data_after = tokenCall.data


(***************************************************************************)
(* Concurrent calls: claims C25 and C26.                                   *)
(***************************************************************************)
\* Some repository call was made, every call that was made has returned, and no
\* backend call of any of them failed.
AllRepoTasksReturned ==
    /\ \E t \in Tasks : repoTasks[t].pc = "done"
    /\ \A t \in Tasks : repoTasks[t].pc \in {"new", "done"} /\ ~repoTasks[t].failed

\* C25: under any interleaving of add_documents and clear_collection calls, once all
\* calls have returned the chunk ids of the BM25 snapshot are the chunk ids of the
\* vector backend.
C25_SnapshotMatchesStoreAfterConcurrentCalls ==
    AllRepoTasksReturned => SnapshotIds = DOMAIN points

\* Some add_message_to_history call was made and every call that was made returned.
AllMemTasksReturned ==
    /\ \E t \in Tasks : memTasks[t].pc = "done"
    /\ \A t \in Tasks : memTasks[t].pc \in {"new", "done"}

\* C26: when add_message_to_history calls of one user interleave, after they have
\* returned the log is within the budget, and keeping the newest evicted message
\* would have left the log over the budget.
C26_ConcurrentPruningEvictsOnlyWhatIsNeeded ==
    AllMemTasksReturned =>
        LET log == Hist(TaskUser)
        IN /\ TotalTokens(log) <= MAX_HISTORY_TOKENS
           /\ evicted # <<>> =>
                  Tokenizer(evicted[Len(evicted)].content) + TotalTokens(log)
                      > MAX_HISTORY_TOKENS


(***************************************************************************)
(* Summarization of the short-term log: claim C27.                         *)
(***************************************************************************)
\* The caller's log right after the rpush of the last add_message_to_history.
LogAfterPush == Append(memCall.before, TurnOfCall(memCall))

\* The log with its MESSAGES_TO_SUMMARIZE oldest messages replaced by the summary.
SummarizedLog(all) ==
    <<SummaryMessage>> \o SubSeq(all, MESSAGES_TO_SUMMARIZE + 1, Len(all))

\* C27: with an adapter, when the append makes the caller's log longer than
\* SUMMARY_THRESHOLD, the 4 oldest messages are replaced by one system summary at the
\* head and the others keep content and order, unless the summarization call fails,
\* and then summarization removes and adds nothing; the token pruning that follows
\* only removes from the old end, and nothing when the log is within the budget.
C27_SummaryReplacesFourOldest ==
    (memCall.op = "add" /\ llm_adapter /\ Len(LogAfterPush) > SUMMARY_THRESHOLD) =>
        LET log == Hist(memCall.user_id)
            expected == IF memCall.summary = "failed"
                        THEN LogAfterPush
                        ELSE SummarizedLog(LogAfterPush)
        IN /\ IsSuffix(log, expected)
           /\ TotalTokens(expected) <= MAX_HISTORY_TOKENS => log = expected


(***************************************************************************)
(* Isolation of the short-term memory between users: claim C28.            *)
(***************************************************************************)
\* The store with the log of every user but `user_id` emptied.
StoreOfOnly(user_id) ==
    [key \in Keys |-> IF key = GetUserMemoryKey(user_id) THEN redis[key] ELSE <<>>]

\* The step is a call for `memCall'.user_id` that leaves the log of every other user
\* as it was, and whose outcome for the caller is the outcome the same call has on
\* a store where the other users' logs are empty.
CallIsIsolated ==
    LET u == memCall'.user_id
        redis_key == GetUserMemoryKey(u)
        pushed == [StoreOfOnly(u) EXCEPT
                      ![redis_key] = Append(@, ModelDumpJson(TurnOfCall(memCall')))]
    IN /\ \A v \in Users \ {u} : redis'[GetUserMemoryKey(v)] = redis[GetUserMemoryKey(v)]
       /\ memCall'.op = "add" =>
              \E summary_ok \in BOOLEAN :
                  redis'[redis_key] =
                      PruneAndSummarize(pushed, redis_key, llm_adapter, summary_ok)[redis_key]
       /\ memCall'.op = "get_history" => memCall'.ret = GetHistoryOf(StoreOfOnly(u), u)

\* C28: an add_message_to_history, get_history or clear_history call for a user
\* neither modifies another user's short-term log nor has an outcome that depends
\* on the contents of another user's log.
C28_ShortTermMemoryIsolatedPerUser ==
    [][memCall'.op \in {"add", "get_history", "clear_history"} => CallIsIsolated]_vars


(***************************************************************************)
(* The memory update of a chat turn: claim C29.                            *)
(***************************************************************************)
\* The positions of the log that hold a turn of `role`.
TurnsOfRole(log, role) == {i \in DOMAIN log : log[i].role = role}

\* The requests of a user that have appended their user turn, and those that have
\* appended their assistant turn as well.
AppendedUserTurn(user_id) ==
    {r \in Requests : chat[r].user_id = user_id /\ chat[r].pc \in {"add_assistant", "done"}}

AppendedBothTurns(user_id) ==
    {r \in Requests : chat[r].user_id = user_id /\ chat[r].pc = "done"}

\* No request of the user is between its two appends.
NoTurnHalfAppended(user_id) ==
    \A r \in Requests : chat[r].user_id = user_id => chat[r].pc # "add_assistant"

\* C29: the log of a user holds one user turn for every request that generated its
\* reply and started the memory update and one assistant turn for every request that
\* finished it, nothing for a request whose generation failed, and once no request
\* is between its two appends every user turn is immediately followed by the reply
\* generated for it.
C29_TurnPairsStayAdjacent ==
    \A user_id \in ChatUsers :
        LET log == Hist(user_id)
        IN /\ Cardinality(TurnsOfRole(log, "user")) = Cardinality(AppendedUserTurn(user_id))
           /\ Cardinality(TurnsOfRole(log, "assistant"))
                  = Cardinality(AppendedBothTurns(user_id))
           /\ NoTurnHalfAppended(user_id) =>
                  \A i \in TurnsOfRole(log, "user") :
                      /\ i < Len(log)
                      /\ log[i + 1].role = "assistant"
                      /\ \E r \in AppendedBothTurns(user_id) :
                             /\ log[i].content = chat[r].user_prompt
                             /\ log[i + 1].content = chat[r].generated_text


(***************************************************************************)
(* Splitting a long message: claim C30.                                    *)
(***************************************************************************)
\* The call returned only non-empty chunks of at most max_length characters, and
\* a text that fits was returned unchanged as the only chunk.
ChunksWithinLimit ==
    /\ ~splitCall.raised
    /\ \A i \in DOMAIN splitCall.chunks :
           splitCall.chunks[i] # <<>> /\ Len(splitCall.chunks[i]) <= splitCall.max_length
    /\ Len(splitCall.text) <= splitCall.max_length => splitCall.chunks = <<splitCall.text>>

\* C30 as stated: for every input text, the chunks returned are non-empty and at
\* most max_length long, and a text that fits is returned unchanged as one chunk.
C30_ChunksNonEmptyForEveryText ==
    splitCall.pc = "split" => ChunksWithinLimit

\* C30: for every non-empty text and every max_length of at least 1, the chunks
\* returned are non-empty and at most max_length long, and a text that fits is
\* returned unchanged as one chunk.
C30_ChunksNonEmptyWithinLimit ==
    (splitCall.pc = "split" /\ splitCall.text # <<>> /\ splitCall.max_length >= 1) =>
        ChunksWithinLimit

\* A text of two paragraphs, longer than max_length, was split: the blank chunk in
\* front was dropped and the paragraph that is too long was cut.
C30_Witness ==
    /\ splitCall.pc = "split"
    /\ splitCall.text = <<Newline, Newline, "a", "a", "a">>
    /\ splitCall.max_length = 2
    /\ splitCall.chunks = << <<"a", "a">>, <<"a">> >>

====
